---------------------------- MODULE Spec2Model ----------------------------
(***************************************************************************)
(* Model of the prompt cache service: the resilient completion provider    *)
(* chain (llm_provider.py: ResilientLLMProvider, MockLLMProvider), the      *)
(* key-rotating Gemini provider (llm_provider.py: GeminiLLMProvider) and    *)
(* the semantic cache engine (cache_db_handler.py: CacheDbHandler,          *)
(* ChromaDbHandler).  The three components share no state.  SpecChain and  *)
(* SpecGemini are the two providers; the cache engine is checked under      *)
(* SpecCache (cache_prompt), SpecRank (the hybrid ranking), SpecLookup      *)
(* (lookup_prompt), SpecEntry (hits and votes), SpecAdmin (namespaces,      *)
(* deletion, statistics, listing), SpecLife (a store from empty), SpecPool  *)
(* (lookups over a namespace larger than the candidate pool) and           *)
(* SpecIsolation (two projects side by side).  SpecChainLive is SpecChain  *)
(* with every awaited provider coming back; SpecRouter is the HTTP router  *)
(* (router.py) over the cache engine.                                      *)
(***************************************************************************)
EXTENDS Integers, Sequences, FiniteSets, TLC

(***************************************************************************)
(* Bounds of the model.                                                     *)
(***************************************************************************)
\* longest provider list handed to ResilientLLMProvider.__init__
MaxProviders == 2
\* number of complete() calls made on the one chain instance
NumChainCalls == 2
\* largest number of API keys of the GeminiLLMProvider instance
MaxKeys == 2
\* number of complete() calls made on the one GeminiLLMProvider instance
NumGeminiCalls == 2
\* number of cache_prompt() calls made on the one cache handler
NumCacheCalls == 2
\* latest reading of the clock
MaxClock == 2
\* largest number of entries a namespace holds before the first call
MaxStored == 2
\* number of increment_entry_hit and vote_entry calls made on the one handler
NumEntryCalls == 2
\* largest number of prompts recorded in the prompt history
MaxHistory == 1
\* largest number of entries of a namespace that outgrows the candidate pool
MaxPooled == 4
\* longest candidate list handed to the hybrid ranking on its own
MaxCandidates == 3
\* largest `limit` argument of lookup_prompt
MaxLimit == 2

VARIABLES
    \* ---- ResilientLLMProvider ----
    given,          \* the provider list as passed to ResilientLLMProvider.__init__
    providers,      \* self.providers: sequence of provider class names
    name,           \* self.name of the chain instance
    cpc,            \* per chain call: "idle", "awaiting", "returned", "raised", "cancelled"
    cprompt,        \* per chain call: the prompt argument
    cidx,           \* per chain call: position in self.providers of the provider awaited
    cinvoked,       \* per chain call: positions of the providers invoked so far, in order
    craised,        \* per chain call: positions of the providers that raised so far, in order
    cresult,        \* per chain call: the text returned to the caller
    creported,      \* per chain call: self.name as the caller reads it when the call returns
    coverlap,       \* per chain call: another call was awaiting a provider when this one returned
    \* ---- GeminiLLMProvider ----
    api_keys,           \* self.api_keys: the credentials, named by their position 0..n-1
    current_key_index,  \* self._current_key_index: the rotation cursor
    gpc,            \* per call: "idle", "awaiting", "returned", "failed"
    gattempt,       \* per call: the loop variable `attempt`
    gkeys,          \* per call: the credentials attempted so far, in order
    glast_error,    \* per call: the local last_error
    gresult,        \* per call: the text returned or the error raised
    gstart,         \* per call: the cursor when the call started
    gshared,        \* per call: another call was in flight at some time during this one
    lastTried,      \* the credential of the latest attempt of any call (-1: none yet)
    \* ---- ChromaDbHandler ----
    collections,    \* self.client: per collection name, Absent or the collection's points
    clock,          \* what datetime.now(timezone.utc) returns
    next_uuid,      \* the uuid4 values handed out so far
    rpc,            \* per cache_prompt call: "idle", "embedding", "done", "failed"
    rargs,          \* per cache_prompt call: its arguments
    rnow,           \* per cache_prompt call: the local `now`
    rresult,        \* per cache_prompt call: the entry_id returned or the exception raised
    \* ---- the hybrid ranking of lookup_prompt, on its own ----
    kpc,            \* "idle" before the ranking loop, "done" after it
    candidates,     \* the local `candidates`, as _pull_entry delivered them
    klimit,         \* the argument `limit`
    ranked_candidates,  \* the local list of (hybrid_score, entry) pairs, sorted
    final_entries,  \* the local `final_entries`: what lookup_prompt returns
    \* ---- one lookup_prompt call ----
    lpc,            \* "idle", "embedding", "done", "failed"
    largs,          \* its arguments
    lseen,          \* the uuid4 values handed out when the call started
    lresult,        \* the list it returned or the exception it raised
    \* ---- increment_entry_hit and vote_entry calls ----
    mpc,            \* per call: "idle", "updating" (between get and update), "done"
    margs,          \* per call: which operation, and its arguments
    mmeta,          \* per call: the local `meta`, as changed before the update
    mnow,           \* per call: what datetime.now() gave
    mresult,        \* per call: what it returned
    mshared,        \* per call: another call was between its get and update during this one
    \* ---- namespace management, deletion, statistics, listing; users and history ----
    opResult,       \* the latest of these calls: its name, arguments and result
    aux_collections \* self.client: the collections "users" and "prompt_history"

chainVars == <<given, providers, name, cpc, cprompt, cidx, cinvoked, craised, cresult, creported,
              coverlap>>

geminiVars == <<api_keys, current_key_index, gpc, gattempt, gkeys, glast_error, gresult,
               gstart, gshared, lastTried>>

promptVars == <<collections, clock, next_uuid, rpc, rargs, rnow, rresult>>

rankVars == <<kpc, candidates, klimit, ranked_candidates, final_entries>>

lookupVars == <<lpc, largs, lseen, lresult>>

entryVars == <<mpc, margs, mmeta, mnow, mresult, mshared>>

adminVars == <<opResult, aux_collections>>

cacheVars == <<promptVars, rankVars, lookupVars, entryVars, adminVars>>

vars == <<chainVars, geminiVars, cacheVars>>

ChainCalls == 1..NumChainCalls

(***************************************************************************)
(* Prompts.  A prompt is a string, modelled as a sequence of characters so  *)
(* that lower() and the substring tests of MockLLMProvider.complete are     *)
(* computed; a caller can also pass a value that is not a string.           *)
(***************************************************************************)
Str(chars) == [isStr |-> TRUE, chars |-> chars]
NotAStr == [isStr |-> FALSE, chars |-> <<>>]

Prompts ==
    { Str(<<"R", "A", "G">>),
      Str(<<"s", "t", "o", "r", "a", "g", "e">>),
      Str(<<"h", "i">>),
      NotAStr }

\* str.lower() on one character
LowerChar(ch) ==
    CASE ch = "R" -> "r"
      [] ch = "A" -> "a"
      [] ch = "G" -> "g"
      [] OTHER -> ch

\* str.lower()
Lower(s) == [i \in 1..Len(s) |-> LowerChar(s[i])]

\* the Python test `sub in q` on strings
Contains(q, sub) ==
    \E i \in 1..(Len(q) - Len(sub) + 1) : SubSeq(q, i, i + Len(sub) - 1) = sub

KwRag == <<"r", "a", "g">>
KwRetrieval == <<"r", "e", "t", "r", "i", "e", "v", "a", "l">>
KwCompress == <<"c", "o", "m", "p", "r", "e", "s", "s">>
KwCache == <<"c", "a", "c", "h", "e">>
KwCaching == <<"c", "a", "c", "h", "i", "n", "g">>
KwLlm == <<"l", "l", "m">>
KwLanguageModel == <<"l", "a", "n", "g", "u", "a", "g", "e", " ", "m", "o", "d", "e", "l">>
KwGpt == <<"g", "p", "t">>

\* MockLLMProvider.complete on a string prompt: the key of RESPONSES it returns
MockResponseKey(chars) ==
    LET q == Lower(chars) IN
    IF Contains(q, KwRag) \/ Contains(q, KwRetrieval) THEN "rag"
    ELSE IF Contains(q, KwCompress) THEN "compression"
    ELSE IF Contains(q, KwCache) \/ Contains(q, KwCaching) THEN "cache"
    ELSE IF Contains(q, KwLlm) \/ Contains(q, KwLanguageModel) \/ Contains(q, KwGpt) THEN "llm"
    ELSE "default"

\* MockLLMProvider.complete raises (AttributeError at prompt.lower()) exactly
\* when the prompt is not a string
MockRaises(prompt) == ~prompt.isStr

(***************************************************************************)
(* Texts handed back to the caller: which provider produced the text, and   *)
(* for a canned text its key in MockLLMProvider.RESPONSES.                  *)
(***************************************************************************)
NoText == [by |-> "none", key |-> "none"]
CannedText(key) == [by |-> "mock", key |-> key]
GeneratedText(pname) == [by |-> pname, key |-> "generated"]

ProviderNames == {"gemini", "openrouter", "mock"}

\* isinstance(p, MockLLMProvider)
IsMock(p) == p = "mock"

RECURSIVE SeqsUpTo(_, _)
\* all sequences over S of length at most n
SeqsUpTo(S, n) ==
    IF n = 0 THEN {<<>>}
    ELSE LET shorter == SeqsUpTo(S, n - 1) IN
         shorter \cup {Append(s, x) : s \in {t \in shorter : Len(t) = n - 1}, x \in S}

\* mutant: __init__ keeps the list as given and appends nothing
ResilientInitNoAppend(list) == list

\* ResilientLLMProvider.__init__: MockLLMProvider is appended when the list
\* holds no MockLLMProvider
ResilientInit(list) ==
    IF \E i \in 1..Len(list) : IsMock(list[i]) THEN list
    ELSE Append(list, "mock")

(***************************************************************************)
(* ResilientLLMProvider.complete.  The loop runs without suspending until   *)
(* it awaits a provider that does I/O; MockLLMProvider.complete has no      *)
(* await and finishes within the same step.  LoopFrom computes where the    *)
(* loop, entered at position i, next stops.                                 *)
(***************************************************************************)
RECURSIVE LoopFrom(_, _, _, _, _)
LoopFrom(provs, prompt, i, invoked, raised) ==
    IF i > Len(provs)
    THEN \* the for loop is over: self.name = "mock"; return RESPONSES["default"]
         [stop |-> "fallthrough", idx |-> i, invoked |-> invoked, raised |-> raised,
          text |-> CannedText("default"), served |-> "mock"]
    ELSE IF IsMock(provs[i])
    THEN IF MockRaises(prompt)
         THEN LoopFrom(provs, prompt, i + 1, Append(invoked, i), Append(raised, i))
         ELSE [stop |-> "return", idx |-> i, invoked |-> Append(invoked, i), raised |-> raised,
               text |-> CannedText(MockResponseKey(prompt.chars)), served |-> provs[i]]
    ELSE [stop |-> "await", idx |-> i, invoked |-> Append(invoked, i), raised |-> raised,
          text |-> NoText, served |-> "none"]

\* some other call than c is suspended at a provider
OthersAwaiting(c) == \E d \in ChainCalls \ {c} : cpc[d] = "awaiting"

\* the state of call c after the loop has run to its next stop
ChainAdvance(c, r) ==
    /\ cidx' = [cidx EXCEPT ![c] = r.idx]
    /\ cinvoked' = [cinvoked EXCEPT ![c] = r.invoked]
    /\ craised' = [craised EXCEPT ![c] = r.raised]
    /\ IF r.stop = "await"
       THEN /\ cpc' = [cpc EXCEPT ![c] = "awaiting"]
            /\ UNCHANGED <<name, cresult, creported, coverlap>>
       ELSE \* self.name = provider.name; return result (and the caller reads self.name)
            /\ cpc' = [cpc EXCEPT ![c] = "returned"]
            /\ name' = r.served
            /\ cresult' = [cresult EXCEPT ![c] = r.text]
            /\ creported' = [creported EXCEPT ![c] = r.served]
            /\ coverlap' = [coverlap EXCEPT ![c] = OthersAwaiting(c)]

\* a caller starts complete(prompt); the calls are numbered in the order they start
ChainComplete(c) ==
    /\ UNCHANGED <<geminiVars, cacheVars>>
    /\ cpc[c] = "idle"
    /\ \A d \in 1..(c - 1) : cpc[d] # "idle"
    /\ \E p \in Prompts :
         /\ cprompt' = [cprompt EXCEPT ![c] = p]
         /\ ChainAdvance(c, LoopFrom(providers, p, 1, <<>>, <<>>))
    /\ UNCHANGED <<given, providers>>

\* mutant: the `return result` is missing, the loop goes on to the next provider
ChainProviderReturnsGoesOn(c) ==
    /\ UNCHANGED <<geminiVars, cacheVars>>
    /\ cpc[c] = "awaiting"
    /\ ChainAdvance(c, LoopFrom(providers, cprompt[c], cidx[c] + 1, cinvoked[c], craised[c]))
    /\ UNCHANGED <<given, providers, cprompt>>

\* mutant: the text is returned without recording the provider in self.name
ChainProviderReturnsNoRecord(c) ==
    /\ UNCHANGED <<geminiVars, cacheVars>>
    /\ cpc[c] = "awaiting"
    /\ cpc' = [cpc EXCEPT ![c] = "returned"]
    /\ cresult' = [cresult EXCEPT ![c] = GeneratedText(providers[cidx[c]])]
    /\ creported' = [creported EXCEPT ![c] = name]
    /\ coverlap' = [coverlap EXCEPT ![c] = OthersAwaiting(c)]
    /\ UNCHANGED <<given, providers, name, cprompt, cidx, cinvoked, craised>>

\* the awaited provider returns a text
ChainProviderReturns(c) ==
    /\ UNCHANGED <<geminiVars, cacheVars>>
    /\ cpc[c] = "awaiting"
    /\ cpc' = [cpc EXCEPT ![c] = "returned"]
    /\ name' = providers[cidx[c]]
    /\ cresult' = [cresult EXCEPT ![c] = GeneratedText(providers[cidx[c]])]
    /\ creported' = [creported EXCEPT ![c] = name']
    /\ coverlap' = [coverlap EXCEPT ![c] = OthersAwaiting(c)]
    /\ UNCHANGED <<given, providers, cprompt, cidx, cinvoked, craised>>

\* mutant: no `except Exception`, the provider's exception leaves complete
ChainProviderRaisesUncaught(c) ==
    /\ UNCHANGED <<geminiVars, cacheVars>>
    /\ cpc[c] = "awaiting"
    /\ cpc' = [cpc EXCEPT ![c] = "raised"]
    /\ craised' = [craised EXCEPT ![c] = Append(craised[c], cidx[c])]
    /\ UNCHANGED <<given, providers, name, cprompt, cidx, cinvoked, cresult, creported, coverlap>>

\* the awaited provider raises an Exception: it is caught, the loop goes on
ChainProviderRaises(c) ==
    /\ UNCHANGED <<geminiVars, cacheVars>>
    /\ cpc[c] = "awaiting"
    /\ ChainAdvance(c, LoopFrom(providers, cprompt[c], cidx[c] + 1,
                                cinvoked[c], Append(craised[c], cidx[c])))
    /\ UNCHANGED <<given, providers, cprompt>>

\* the task is cancelled while it awaits a provider: CancelledError is a
\* BaseException, `except Exception` does not catch it, the call ends
ChainCancelled(c) ==
    /\ UNCHANGED <<geminiVars, cacheVars>>
    /\ cpc[c] = "awaiting"
    /\ cpc' = [cpc EXCEPT ![c] = "cancelled"]
    /\ UNCHANGED <<given, providers, name, cprompt, cidx, cinvoked, craised, cresult, creported,
                   coverlap>>

\* the chain as ResilientLLMProvider(list) constructs it, no call made yet
ChainInitWith(list) ==
    /\ given = list
    /\ providers = ResilientInit(list)
    /\ name = "resilient"
    /\ cpc = [c \in ChainCalls |-> "idle"]
    /\ cprompt = [c \in ChainCalls |-> NotAStr]
    /\ cidx = [c \in ChainCalls |-> 0]
    /\ cinvoked = [c \in ChainCalls |-> <<>>]
    /\ craised = [c \in ChainCalls |-> <<>>]
    /\ cresult = [c \in ChainCalls |-> NoText]
    /\ creported = [c \in ChainCalls |-> "none"]
    /\ coverlap = [c \in ChainCalls |-> FALSE]

ChainInit == \E list \in SeqsUpTo(ProviderNames, MaxProviders) : ChainInitWith(list)

ChainNext ==
    \E c \in ChainCalls :
        \/ ChainComplete(c)
        \/ ChainProviderReturns(c)
        \/ ChainProviderRaises(c)
        \/ ChainCancelled(c)

(***************************************************************************)
(* GeminiLLMProvider: several API keys with rotation.                       *)
(***************************************************************************)
GeminiCalls == 1..NumGeminiCalls

\* the errors a call can end with or remember in last_error
NoError == [kind |-> "none", attempt |-> 0]
\* Exception(f"Gemini rate-limited (key {attempt + 1})")
RateLimited(attempt) == [kind |-> "rate_limited", attempt |-> attempt + 1]
\* the httpx.HTTPError caught at attempt `attempt`
TransportError(attempt) == [kind |-> "http_error", attempt |-> attempt + 1]
\* mutant: a status other than 200 and 429 is reported as a rate limit
StatusErrorAsRateLimit(attempt) == [kind |-> "rate_limited", attempt |-> attempt + 1]

\* Exception(f"Gemini returned status {response.status_code}")
StatusError(attempt) == [kind |-> "status", attempt |-> attempt + 1]
\* Exception("All Gemini API keys exhausted")
KeysExhausted == [kind |-> "exhausted", attempt |-> 0]

\* the text the API returns for a request made with credential k
KeyResponse(k) == [kind |-> "text", key |-> k]

\* what one HTTP request can come back with: status 200, status 429, an
\* httpx.HTTPError, any other status
Outcomes == {"200", "429", "http_error", "status_other"}

\* mutant: _rotate_key advances first and returns the key under the new cursor
RotateKeyAfterAdvance(keys, index) == keys[((index + 1) % Len(keys)) + 1]

\* _rotate_key: the key returned
RotateKey(keys, index) == keys[index + 1]

\* mutant: _rotate_key leaves the cursor where it is
RotateIndexStuck(keys, index) == index

\* mutant: _rotate_key advances without wrapping around
RotateIndexNoWrap(keys, index) == index + 1

\* _rotate_key: the cursor afterwards
RotateIndex(keys, index) == (index + 1) % Len(keys)

\* mutant: the loop runs over range(len(self.api_keys) - 1)
HasNextAttemptShort(keys, attempt) == attempt + 1 < Len(keys) - 1

\* range(len(self.api_keys)): whether the loop has another iteration after `attempt`
HasNextAttempt(keys, attempt) == attempt + 1 < Len(keys)

\* raise last_error or Exception("All Gemini API keys exhausted")
ExhaustedError(last_error) == IF last_error # NoError THEN last_error ELSE KeysExhausted

\* one loop iteration up to its await: api_key = self._rotate_key(), then the
\* request is posted and the call suspends
GeminiAttempt(c, attempt) ==
    LET key == RotateKey(api_keys, current_key_index) IN
    /\ current_key_index' = RotateIndex(api_keys, current_key_index)
    /\ gattempt' = [gattempt EXCEPT ![c] = attempt]
    /\ gkeys' = [gkeys EXCEPT ![c] = Append(gkeys[c], key)]
    /\ lastTried' = key
    /\ gpc' = [gpc EXCEPT ![c] = "awaiting"]

\* the call ends by raising `err`
GeminiRaise(c, err) ==
    /\ gpc' = [gpc EXCEPT ![c] = "failed"]
    /\ gresult' = [gresult EXCEPT ![c] = err]
    /\ UNCHANGED <<current_key_index, gattempt, gkeys, lastTried>>

\* the calls other than c that are suspended at their request
InFlightWith(c) == {d \in GeminiCalls \ {c} : gpc[d] = "awaiting"}

\* a caller starts complete(); the calls are numbered in the order they start
GeminiComplete(c) ==
    /\ UNCHANGED <<chainVars, cacheVars>>
    /\ gpc[c] = "idle"
    /\ \A d \in 1..(c - 1) : gpc[d] # "idle"
    /\ gstart' = [gstart EXCEPT ![c] = current_key_index]
    /\ IF Len(api_keys) = 0
       THEN /\ GeminiRaise(c, ExhaustedError(NoError))
            /\ UNCHANGED gshared
       ELSE /\ GeminiAttempt(c, 0)
            /\ gshared' = [d \in GeminiCalls |->
                             IF d = c THEN InFlightWith(c) # {}
                             ELSE gshared[d] \/ d \in InFlightWith(c)]
            /\ UNCHANGED gresult
    /\ UNCHANGED <<api_keys, glast_error>>

\* the rest of an iteration that ended in `continue` with last_error = err:
\* the next iteration, or the raise after the loop
GeminiContinue(c, err) ==
    /\ glast_error' = [glast_error EXCEPT ![c] = err]
    /\ IF HasNextAttempt(api_keys, gattempt[c])
       THEN /\ GeminiAttempt(c, gattempt[c] + 1)
            /\ UNCHANGED gresult
       ELSE GeminiRaise(c, ExhaustedError(err))

\* the request of call c comes back
GeminiResponse(c) ==
    /\ UNCHANGED <<chainVars, cacheVars>>
    /\ gpc[c] = "awaiting"
    /\ \E outcome \in Outcomes :
         CASE outcome = "200" ->
                /\ gpc' = [gpc EXCEPT ![c] = "returned"]
                /\ gresult' = [gresult EXCEPT ![c] = KeyResponse(gkeys[c][Len(gkeys[c])])]
                /\ UNCHANGED <<current_key_index, gattempt, gkeys, glast_error, lastTried>>
           [] outcome = "429" -> GeminiContinue(c, RateLimited(gattempt[c]))
           [] outcome = "http_error" -> GeminiContinue(c, TransportError(gattempt[c]))
           [] outcome = "status_other" ->
                \* raised inside the try, not an httpx.HTTPError: it leaves complete
                /\ GeminiRaise(c, StatusError(gattempt[c]))
                /\ UNCHANGED glast_error
    /\ UNCHANGED <<api_keys, gstart, gshared>>

\* the provider as GeminiLLMProvider(api_keys=keys) constructs it, no call made yet
GeminiInitWith(keys) ==
    /\ api_keys = keys
    /\ current_key_index = 0
    /\ gpc = [c \in GeminiCalls |-> "idle"]
    /\ gattempt = [c \in GeminiCalls |-> 0]
    /\ gkeys = [c \in GeminiCalls |-> <<>>]
    /\ glast_error = [c \in GeminiCalls |-> NoError]
    /\ gresult = [c \in GeminiCalls |-> NoError]
    /\ gstart = [c \in GeminiCalls |-> 0]
    /\ gshared = [c \in GeminiCalls |-> FALSE]
    /\ lastTried = -1

GeminiInit == \E n \in 0..MaxKeys : GeminiInitWith([i \in 1..n |-> i - 1])

GeminiNext ==
    \E c \in GeminiCalls :
        \/ GeminiComplete(c)
        \/ GeminiResponse(c)


(***************************************************************************)
(* The semantic cache engine: CacheDbHandler over ChromaDbHandler.          *)
(***************************************************************************)
CacheCalls == 1..NumCacheCalls

Projects == {"alpha", "beta"}
Users == {"u1"}
CachePrompts == {"q1", "q2"}
Answers == {"a1"}

\* the compression arguments of cache_prompt: a prompt compressed to half its tokens
CompressionMetas ==
    { [compressed_prompt |-> "cq", compression_ratio |-> 50,
       original_tokens |-> 10, compressed_tokens |-> 5] }

CacheArgs ==
    [project_id : Projects, user_id : Users, prompt : CachePrompts, answer : Answers,
     compression : CompressionMetas]

NoArgs == [project_id |-> "none"]

\* no collection of that name in the client
Absent == [exists |-> FALSE, points |-> <<>>]
\* a collection holding `points`, in insertion order
Collection(points) == [exists |-> TRUE, points |-> points]

\* f"project_{project_id}"
CollectionName(project_id) == <<"project_", project_id>>

CollectionNames == {CollectionName(p) : p \in Projects}

\* datetime.isoformat() and datetime.fromisoformat(): the timestamp as the text
\* the metadata holds, and back
IsoFormat(t) == [iso |-> t]
FromIsoFormat(text) == text.iso

\* self._embed_engine.embed(prompt) when it succeeds: the vector of the text
\* (vectors of one length, as the embedding model normalises them; "q3" is a
\* near duplicate of "q1")
EmbeddingOf(prompt) ==
    CASE prompt = "q1" -> <<25, 0>>
      [] prompt = "q2" -> <<0, 25>>
      [] prompt = "q3" -> <<24, 7>>

\* the exception an embedding call raises
EmbeddingError == [error |-> "EmbeddingFailed", project_id |-> "none"]
\* ValueError(f"No namespace found for project '{entry.project_id}'.")
NamespaceNotFound(project_id) == [error |-> "NoNamespace", project_id |-> project_id]
NoResult == [error |-> "none", project_id |-> "none"]
Returned(value) == [error |-> "ok", value |-> value]

\* `except Exception as e: ...; raise e`: the caller sees the exception caught
Reraise(e) == e

\* mutant: the creation does not count as an access
NewEntryUnaccessed(entry_id, args, key_embedding, now) ==
    [entry_id |-> entry_id,
     project_id |-> args.project_id,
     user_id |-> args.user_id,
     key_embedding |-> key_embedding,
     prompt |-> args.prompt,
     answer |-> args.answer,
     compressed_prompt |-> args.compression.compressed_prompt,
     compression_ratio |-> args.compression.compression_ratio,
     original_tokens |-> args.compression.original_tokens,
     compressed_tokens |-> args.compression.compressed_tokens,
     created_at |-> now,
     times_accessed |-> 0,
     last_accessed_at |-> now,
     likes |-> 0,
     dislikes |-> 0]

\* mutant: the entry's last access is stamped after its creation
NewEntryAccessedLater(entry_id, args, key_embedding, now) ==
    [entry_id |-> entry_id,
     project_id |-> args.project_id,
     user_id |-> args.user_id,
     key_embedding |-> key_embedding,
     prompt |-> args.prompt,
     answer |-> args.answer,
     compressed_prompt |-> args.compression.compressed_prompt,
     compression_ratio |-> args.compression.compression_ratio,
     original_tokens |-> args.compression.original_tokens,
     compressed_tokens |-> args.compression.compressed_tokens,
     created_at |-> now,
     times_accessed |-> 1,
     last_accessed_at |-> now + 1,
     likes |-> 0,
     dislikes |-> 0]

\* CachedPromptEntry as cache_prompt constructs it
NewEntry(entry_id, args, key_embedding, now) ==
    [entry_id |-> entry_id,
     project_id |-> args.project_id,
     user_id |-> args.user_id,
     key_embedding |-> key_embedding,
     prompt |-> args.prompt,
     answer |-> args.answer,
     compressed_prompt |-> args.compression.compressed_prompt,
     compression_ratio |-> args.compression.compression_ratio,
     original_tokens |-> args.compression.original_tokens,
     compressed_tokens |-> args.compression.compressed_tokens,
     created_at |-> now,
     times_accessed |-> 1,
     last_accessed_at |-> now,
     likes |-> 0,
     dislikes |-> 0]

\* the point _push_entry adds for an entry: id, embedding, document, metadata
PointOf(entry) ==
    [id |-> entry.entry_id,
     embedding |-> entry.key_embedding,
     document |-> entry.prompt,
     metadata |->
        [project_id |-> entry.project_id,
         user_id |-> entry.user_id,
         answer |-> entry.answer,
         compressed_prompt |-> entry.compressed_prompt,
         compression_ratio |-> entry.compression_ratio,
         original_tokens |-> entry.original_tokens,
         compressed_tokens |-> entry.compressed_tokens,
         created_at |-> IsoFormat(entry.created_at),
         times_accessed |-> entry.times_accessed,
         last_accessed_at |-> IsoFormat(entry.last_accessed_at),
         likes |-> entry.likes,
         dislikes |-> entry.dislikes]]

\* mutant: every project is served from the collection of "alpha"
GetProjectNamespaceShared(project_id) == collections[CollectionName("alpha")]

\* _get_project_namespace: the collection, or Absent for None
GetProjectNamespace(project_id) == collections[CollectionName(project_id)]

\* mutant: _push_entry fetches the collection with get_or_create_collection
PushEntryCreating(entry) ==
    LET cname == CollectionName(entry.project_id)
        points == collections[cname].points IN
    [raises |-> FALSE,
     error |-> NoResult,
     collections |-> [collections EXCEPT
                        ![cname] = Collection(Append(points, PointOf(entry)))]]

\* _push_entry: raises ValueError without a namespace, else adds one point
PushEntry(entry) ==
    LET cname == CollectionName(entry.project_id) IN
    IF GetProjectNamespace(entry.project_id) = Absent
    THEN [raises |-> TRUE,
          error |-> NamespaceNotFound(entry.project_id),
          collections |-> collections]
    ELSE [raises |-> FALSE,
          error |-> NoResult,
          collections |-> [collections EXCEPT
                             ![cname] = Collection(Append(@.points, PointOf(entry)))]]

\* datetime.now() moves on
Tick ==
    /\ UNCHANGED <<chainVars, geminiVars, adminVars, rankVars, lookupVars, entryVars>>
    /\ clock < MaxClock
    /\ clock' = clock + 1
    /\ UNCHANGED <<collections, next_uuid, rpc, rargs, rnow, rresult>>

\* ValueError(f"Namespace for project '{project_id}' already exists.")
AlreadyExists(project_id) == [error |-> "AlreadyExists", project_id |-> project_id]

\* the names of the collections the handler keeps beside the project namespaces
AuxNames == {<<"users">>, <<"prompt_history">>}

\* mutant: create_project_namespace replaces a namespace that exists
CreateNamespaceAnew(project_id) ==
    [result |-> IF GetProjectNamespace(project_id) # Absent THEN AlreadyExists(project_id)
                ELSE Returned("None"),
     collections |-> [collections EXCEPT
                        ![CollectionName(project_id)] = Collection(<<>>)]]

\* create_project_namespace(project_id): what it returns or raises, and the
\* client afterwards
CreateNamespace(project_id) ==
    IF GetProjectNamespace(project_id) # Absent
    THEN \* raise ValueError: the namespace already exists
         [result |-> AlreadyExists(project_id), collections |-> collections]
    ELSE [result |-> Returned("None"),
          collections |-> [collections EXCEPT
                             ![CollectionName(project_id)] = Collection(<<>>)]]

\* mutant: clear_project_cache counts after deleting the collection
ClearNamespaceCountAfter(project_id) ==
    IF GetProjectNamespace(project_id) = Absent
    THEN [result |-> Returned(0), collections |-> collections]
    ELSE [result |-> Returned(0),
          collections |-> [collections EXCEPT ![CollectionName(project_id)] = Absent]]

\* clear_project_cache(project_id): what it returns, and the client afterwards
ClearNamespace(project_id) ==
    IF GetProjectNamespace(project_id) = Absent
    THEN [result |-> Returned(0), collections |-> collections]
    ELSE \* count = collection.count(); self.client.delete_collection; return count
         [result |-> Returned(Len(GetProjectNamespace(project_id).points)),
          collections |-> [collections EXCEPT ![CollectionName(project_id)] = Absent]]

\* create_project_namespace(project_id), by a caller that drops the result
CreateProjectNamespace(project_id) ==
    /\ UNCHANGED <<chainVars, geminiVars, adminVars, rankVars, lookupVars, entryVars>>
    /\ collections' = CreateNamespace(project_id).collections
    /\ UNCHANGED <<clock, next_uuid, rpc, rargs, rnow, rresult>>

\* clear_project_cache(project_id), by a caller that drops the result
ClearProjectCache(project_id) ==
    /\ UNCHANGED <<chainVars, geminiVars, adminVars, rankVars, lookupVars, entryVars>>
    /\ collections' = ClearNamespace(project_id).collections
    /\ UNCHANGED <<clock, next_uuid, rpc, rargs, rnow, rresult>>

\* cache_prompt up to its await: now is read, the embedding call is started;
\* the calls are numbered in the order they start
CachePrompt(r) ==
    /\ UNCHANGED <<chainVars, geminiVars, adminVars, rankVars, lookupVars, entryVars>>
    /\ rpc[r] = "idle"
    /\ \A q \in 1..(r - 1) : rpc[q] # "idle"
    /\ \E args \in CacheArgs : rargs' = [rargs EXCEPT ![r] = args]
    /\ rnow' = [rnow EXCEPT ![r] = clock]
    /\ rpc' = [rpc EXCEPT ![r] = "embedding"]
    /\ UNCHANGED <<collections, clock, next_uuid, rresult>>

\* the embedding call raises: cache_prompt logs and re-raises the exception
CachePromptEmbedFails(r) ==
    /\ UNCHANGED <<chainVars, geminiVars, adminVars, rankVars, lookupVars, entryVars>>
    /\ rpc[r] = "embedding"
    /\ rpc' = [rpc EXCEPT ![r] = "failed"]
    /\ rresult' = [rresult EXCEPT ![r] = Reraise(EmbeddingError)]
    /\ UNCHANGED <<collections, clock, next_uuid, rargs, rnow>>

\* the embedding call returns: the entry is built with a fresh uuid4 and pushed
CachePromptEmbedded(r) ==
    /\ UNCHANGED <<chainVars, geminiVars, adminVars, rankVars, lookupVars, entryVars>>
    /\ rpc[r] = "embedding"
    /\ LET entry == NewEntry(next_uuid + 1, rargs[r], EmbeddingOf(rargs[r].prompt), rnow[r])
           pushed == PushEntry(entry) IN
       /\ next_uuid' = next_uuid + 1
       /\ collections' = pushed.collections
       /\ IF pushed.raises
          THEN /\ rpc' = [rpc EXCEPT ![r] = "failed"]
               /\ rresult' = [rresult EXCEPT ![r] = Reraise(pushed.error)]
          ELSE /\ rpc' = [rpc EXCEPT ![r] = "done"]
               /\ rresult' = [rresult EXCEPT ![r] = Returned(entry.entry_id)]
    /\ UNCHANGED <<clock, rargs, rnow>>

\* ChromaDbHandler(embed_engine, persist_dir) on a client whose project
\* collections are `existing`, all of them empty
CacheInitWith(existing) ==
    /\ collections =
          [cn \in CollectionNames |->
                         IF cn \in existing THEN Collection(<<>>) ELSE Absent]
    /\ clock = 0
    /\ next_uuid = 0
    /\ rpc = [r \in CacheCalls |-> "idle"]
    /\ rargs = [r \in CacheCalls |-> NoArgs]
    /\ rnow = [r \in CacheCalls |-> 0]
    /\ rresult = [r \in CacheCalls |-> NoResult]

CacheInit == CacheInitWith({})

CacheNext ==
    \/ Tick
    \/ \E p \in Projects : CreateProjectNamespace(p)
    \/ \E p \in Projects : ClearProjectCache(p)
    \/ \E r \in CacheCalls : CachePrompt(r)
    \/ \E r \in CacheCalls : CachePromptEmbedFails(r)
    \/ \E r \in CacheCalls : CachePromptEmbedded(r)


(***************************************************************************)
(* The hybrid ranking of lookup_prompt.  Scores are kept in hundredths:    *)
(* a similarity of 1.0 is 100, a vote boost of 0.01 is 1.                   *)
(***************************************************************************)
Min(a, b) == IF a < b THEN a ELSE b
Max(a, b) == IF a > b THEN a ELSE b

\* mutant: the two caps of the boost are exchanged
VoteBoostCapsSwapped(likes, dislikes) ==
    LET net_votes == likes - dislikes IN
    Max(-20, Min(10, net_votes * 1))

\* mutant: the boost is not capped
VoteBoostUncapped(likes, dislikes) == (likes - dislikes) * 1

\* vote_boost = max(-0.1, min(0.2, net_votes * 0.01))
VoteBoost(likes, dislikes) ==
    LET net_votes == likes - dislikes IN
    Max(-10, Min(20, net_votes * 1))

\* the pair (hybrid_score, entry) appended to ranked_candidates
RankedPair(entry) ==
    [hybrid_score |-> entry.score + VoteBoost(entry.likes, entry.dislikes),
     entry |-> entry]

\* mutant: the sort lacks reverse=True
InsertAscending(sorted, pair) ==
    LET before == {i \in 1..Len(sorted) : sorted[i].hybrid_score <= pair.hybrid_score}
        k == Cardinality(before) IN
    SubSeq(sorted, 1, k) \o <<pair>> \o SubSeq(sorted, k + 1, Len(sorted))

\* mutant: the pair is put before the pairs of the same hybrid_score
InsertDescendingBeforeTies(sorted, pair) ==
    LET before == {i \in 1..Len(sorted) : sorted[i].hybrid_score > pair.hybrid_score}
        k == Cardinality(before) IN
    SubSeq(sorted, 1, k) \o <<pair>> \o SubSeq(sorted, k + 1, Len(sorted))

\* one pair put into a list sorted by non-increasing hybrid_score, after every
\* pair whose hybrid_score is not lower
InsertDescending(sorted, pair) ==
    LET before == {i \in 1..Len(sorted) : sorted[i].hybrid_score >= pair.hybrid_score}
        k == Cardinality(before) IN
    SubSeq(sorted, 1, k) \o <<pair>> \o SubSeq(sorted, k + 1, Len(sorted))

\* list.sort(key=lambda x: x[0], reverse=True): a stable sort, pairs of equal
\* hybrid_score stay in the order they had
RECURSIVE SortDescendingFrom(_, _, _)
SortDescendingFrom(pairs, i, sorted) ==
    IF i > Len(pairs) THEN sorted
    ELSE SortDescendingFrom(pairs, i + 1, InsertDescending(sorted, pairs[i]))

SortDescending(pairs) == SortDescendingFrom(pairs, 1, <<>>)

\* ranked_candidates after the loop and the sort
RankedCandidates(cands) ==
    SortDescending([i \in 1..Len(cands) |-> RankedPair(cands[i])])

\* [x[1] for x in ranked_candidates[:limit]]
TopEntries(pairs, limit) ==
    [i \in 1..Min(limit, Len(pairs)) |-> pairs[i].entry]

\* the similarities and vote counts of the candidates ranked on their own
RankScores == {100, 96, 70, 69}
RankVotes == {<<0, 0>>, <<3, 0>>, <<0, 3>>, <<20, 0>>, <<21, 0>>, <<0, 10>>, <<0, 11>>,
              <<1000, 0>>, <<0, 1000>>}

\* a candidate as _pull_entry builds it, reduced to what the ranking reads
Candidate(entry_id, score, votes) ==
    [entry_id |-> entry_id, score |-> score, likes |-> votes[1], dislikes |-> votes[2]]

\* the similarities collection.query can deliver for n results: nearest first
ScoreLists(n) ==
    {f \in [1..n -> RankScores] : \A i \in 1..(n - 1) : f[i] >= f[i + 1]}

\* lookup_prompt from `if not candidates` on, for a non-empty candidate list
Rerank ==
    /\ UNCHANGED <<chainVars, geminiVars, adminVars, promptVars, lookupVars, entryVars>>
    /\ kpc = "idle"
    /\ candidates # <<>>
    /\ ranked_candidates' = RankedCandidates(candidates)
    /\ final_entries' = TopEntries(RankedCandidates(candidates), klimit)
    /\ kpc' = "done"
    /\ UNCHANGED <<candidates, klimit>>

\* no ranking in progress
RankQuiet ==
    /\ kpc = "idle"
    /\ candidates = <<>>
    /\ klimit = 1
    /\ ranked_candidates = <<>>
    /\ final_entries = <<>>

\* a candidate list and a limit, before the ranking loop
RankInit ==
    /\ kpc = "idle"
    /\ \E n \in 1..MaxCandidates :
          \E sc \in ScoreLists(n) :
             \E vt \in [1..n -> RankVotes] :
                candidates = [i \in 1..n |-> Candidate(i, sc[i], vt[i])]
    /\ klimit \in 1..MaxLimit
    /\ ranked_candidates = <<>>
    /\ final_entries = <<>>

RankNext == Rerank


(***************************************************************************)
(* lookup_prompt on the store.                                              *)
(***************************************************************************)
Dot(a, b) == a[1] * b[1] + a[2] * b[2]

\* the length of a vector (the vectors of the model have whole lengths)
SquareRoot == [s \in {r * r : r \in 0..25} |-> CHOOSE r \in 0..25 : r * r = s]

Norm(a) == SquareRoot[Dot(a, a)]

\* the distance of a collection created with "hnsw:space": "cosine"
CosineDistance(a, b) ==
    IF Norm(a) = 0 \/ Norm(b) = 0 THEN 100
    ELSE 100 - ((100 * Dot(a, b)) \div (Norm(a) * Norm(b)))

\* the orders in which collection.query can deliver the points of a collection:
\* nearest first, points at the same distance in any order
QueryOrders(points, query_embedding) ==
    LET n == Len(points)
        distance == [i \in 1..n |-> CosineDistance(query_embedding, points[i].embedding)] IN
    {order \in [1..n -> 1..n] :
        /\ \A i, j \in 1..n : i # j => order[i] # order[j]
        /\ \A i \in 1..(n - 1) : distance[order[i]] <= distance[order[i + 1]]}

\* mutant: the similarity is kept apart and score is left at its default of 1.0
PulledEntryDefaultScore(point, distance, project_id) ==
    [entry_id |-> point.id,
     project_id |-> point.metadata.project_id,
     user_id |-> point.metadata.user_id,
     key_embedding |-> point.embedding,
     prompt |-> point.document,
     answer |-> point.metadata.answer,
     compressed_prompt |-> point.metadata.compressed_prompt,
     compression_ratio |-> point.metadata.compression_ratio,
     original_tokens |-> point.metadata.original_tokens,
     compressed_tokens |-> point.metadata.compressed_tokens,
     created_at |-> FromIsoFormat(point.metadata.created_at),
     times_accessed |-> point.metadata.times_accessed,
     last_accessed_at |-> FromIsoFormat(point.metadata.last_accessed_at),
     likes |-> point.metadata.likes,
     dislikes |-> point.metadata.dislikes,
     score |-> 100]

\* the CachedPromptEntry _pull_entry builds from a query result
PulledEntry(point, distance, project_id) ==
    [entry_id |-> point.id,
     project_id |-> point.metadata.project_id,
     user_id |-> point.metadata.user_id,
     key_embedding |-> point.embedding,
     prompt |-> point.document,
     answer |-> point.metadata.answer,
     compressed_prompt |-> point.metadata.compressed_prompt,
     compression_ratio |-> point.metadata.compression_ratio,
     original_tokens |-> point.metadata.original_tokens,
     compressed_tokens |-> point.metadata.compressed_tokens,
     created_at |-> FromIsoFormat(point.metadata.created_at),
     times_accessed |-> point.metadata.times_accessed,
     last_accessed_at |-> FromIsoFormat(point.metadata.last_accessed_at),
     likes |-> point.metadata.likes,
     dislikes |-> point.metadata.dislikes,
     score |-> 100 - distance]

\* mutant: the threshold is applied to nothing
BelowThresholdNever(similarity, threshold) == FALSE

\* `if similarity < threshold: continue`
BelowThreshold(similarity, threshold) == similarity < threshold

\* the loop of _pull_entry over the first n results of the query
RECURSIVE PullFrom(_, _, _, _, _, _, _, _)
PullFrom(points, order, n, query_embedding, project_id, threshold, i, entries) ==
    IF i > n THEN entries
    ELSE LET point == points[order[i]]
             distance == CosineDistance(query_embedding, point.embedding) IN
         IF BelowThreshold(100 - distance, threshold)
         THEN PullFrom(points, order, n, query_embedding, project_id, threshold, i + 1,
                       entries)
         ELSE PullFrom(points, order, n, query_embedding, project_id, threshold, i + 1,
                       Append(entries, PulledEntry(point, distance, project_id)))

\* _pull_entry(project_id, query_embedding, limit, threshold), the query
\* delivering the points in `order`
PullEntry(project_id, query_embedding, limit, threshold, order) ==
    LET collection == GetProjectNamespace(project_id) IN
    IF collection = Absent THEN <<>>
    ELSE IF Len(collection.points) = 0 THEN <<>>
    ELSE PullFrom(collection.points, order, Min(limit, Len(collection.points)),
                  query_embedding, project_id, threshold, 1, <<>>)

\* mutant: the lookup path counts a hit on every entry it pulled
StoreAfterPullCounting(project_id, query_embedding, threshold) ==
    LET cname == CollectionName(project_id)
        points == collections[cname].points IN
    IF collections[cname] = Absent THEN collections
    ELSE [collections EXCEPT ![cname] = Collection(
            [i \in 1..Len(points) |->
                IF BelowThreshold(100 - CosineDistance(query_embedding, points[i].embedding),
                                  threshold)
                THEN points[i]
                ELSE [points[i] EXCEPT !.metadata.times_accessed = @ + 1]])]

\* the client after _pull_entry: updates_ids and updates_metas stay empty and
\* no update is sent
StoreAfterPull(project_id, query_embedding, threshold) == collections

\* mutant: the pool is ten times the limit
PoolSizeTenfold(limit) == limit * 10

\* the pool lookup_prompt asks _pull_entry for: limit * 3
PoolSize(limit) == limit * 3

\* lookup_prompt after its await, the query delivering the points in `order`
LookupResult(args, order) ==
    LET pulled == PullEntry(args.project_id, EmbeddingOf(args.prompt),
                            PoolSize(args.limit), args.threshold, order) IN
    IF pulled = <<>> THEN <<>>
    ELSE TopEntries(RankedCandidates(pulled), args.limit)

\* the CacheLookupResult list the router builds from the entries
CacheLookupResults(entries) ==
    [i \in 1..Len(entries) |->
        [entry_id |-> entries[i].entry_id,
         key |-> entries[i].prompt,
         value |-> entries[i].answer,
         score |-> entries[i].score,
         compressed_prompt |-> entries[i].compressed_prompt,
         compression_ratio |-> entries[i].compression_ratio,
         original_tokens |-> entries[i].original_tokens,
         compressed_tokens |-> entries[i].compressed_tokens,
         hit_count |-> entries[i].times_accessed,
         created_at |-> IsoFormat(entries[i].created_at),
         last_accessed |-> IsoFormat(entries[i].last_accessed_at),
         employee_id |-> entries[i].user_id]]

LookupPrompts == CachePrompts \cup {"q3"}
\* similarity thresholds: 0.0 and 1.0
Thresholds == {0, 100}

LookupArgs ==
    [project_id : Projects, prompt : LookupPrompts, limit : 1..MaxLimit,
     threshold : Thresholds]

\* lookup_prompt up to its await
LookupPrompt ==
    /\ UNCHANGED <<chainVars, geminiVars, adminVars, promptVars, rankVars, entryVars>>
    /\ lpc = "idle"
    /\ \E args \in LookupArgs : largs' = args
    /\ lseen' = next_uuid
    /\ lpc' = "embedding"
    /\ UNCHANGED lresult

\* the embedding call raises, and so does lookup_prompt
LookupEmbedFails ==
    /\ UNCHANGED <<chainVars, geminiVars, adminVars, promptVars, rankVars, entryVars>>
    /\ lpc = "embedding"
    /\ lpc' = "failed"
    /\ lresult' = EmbeddingError
    /\ UNCHANGED <<largs, lseen>>

\* the embedding call returns: the pool is pulled, ranked and cut to `limit`
LookupEmbedded ==
    /\ UNCHANGED <<chainVars, geminiVars, adminVars, rankVars, entryVars>>
    /\ lpc = "embedding"
    /\ \E order \in QueryOrders(GetProjectNamespace(largs.project_id).points,
                                EmbeddingOf(largs.prompt)) :
          lresult' = Returned(LookupResult(largs, order))
    /\ collections' = StoreAfterPull(largs.project_id, EmbeddingOf(largs.prompt),
                                     largs.threshold)
    /\ lpc' = "done"
    /\ UNCHANGED <<clock, next_uuid, rpc, rargs, rnow, rresult, largs, lseen>>

\* no lookup in progress
LookupQuiet ==
    /\ lpc = "idle"
    /\ largs = NoArgs
    /\ lseen = 0
    /\ lresult = NoResult

\* the vote counts and prompts of the entries a namespace holds at the start
StoredVotes == {<<0, 0>>, <<5, 0>>, <<0, 5>>}
StoredPrompts == LookupPrompts

\* the point of an entry cached at time 0 and voted on since
StoredPoint(entry_id, project_id, prompt, votes) ==
    LET args == [project_id |-> project_id, user_id |-> "u1", prompt |-> prompt,
                 answer |-> <<"answer", entry_id>>,
                 compression |-> CHOOSE c \in CompressionMetas : TRUE]
        point == PointOf(NewEntry(entry_id, args, EmbeddingOf(prompt), 0)) IN
    [point EXCEPT !.metadata.likes = votes[1], !.metadata.dislikes = votes[2]]

\* the contents a namespace can have after up to MaxStored cache_prompt calls
\* and the votes that followed
StoredPointLists(project_id) ==
    UNION {
      { [i \in 1..n |-> StoredPoint(i, project_id, pr[i], vt[i])] :
           pr \in [1..n -> StoredPrompts], vt \in [1..n -> StoredVotes] }
      : n \in 0..MaxStored }

\* a handler whose project "alpha" holds some entries; "beta" has no namespace
StoreInit ==
    /\ \E points \in StoredPointLists("alpha") :
          /\ collections = [cn \in CollectionNames |->
                              IF cn = CollectionName("alpha") THEN Collection(points)
                              ELSE Absent]
          /\ next_uuid = Len(points)
    /\ clock = 0
    /\ rpc = [r \in CacheCalls |-> "idle"]
    /\ rargs = [r \in CacheCalls |-> NoArgs]
    /\ rnow = [r \in CacheCalls |-> 0]
    /\ rresult = [r \in CacheCalls |-> NoResult]

\* one cache_prompt call and one lookup_prompt call, in any interleaving
LookupNext ==
    \/ CachePrompt(1)
    \/ CachePromptEmbedFails(1)
    \/ CachePromptEmbedded(1)
    \/ LookupPrompt
    \/ LookupEmbedFails
    \/ LookupEmbedded


(***************************************************************************)
(* increment_entry_hit and vote_entry.  Each reads the entry's metadata    *)
(* with collection.get and writes it back with collection.update; nothing  *)
(* locks the entry in between, so the get and the update of a call are     *)
(* separate steps.                                                          *)
(***************************************************************************)
EntryCalls == 1..NumEntryCalls

\* the vote_type values callers send: the two known ones and another one
VoteTypes == {"like", "dislike", "meh"}
\* the entry ids callers name: the first entry stored, and one never stored
EntryIds == {1, 3}

EntryArgs ==
    [op : {"hit"}, project_id : Projects, entry_id : EntryIds, vote_type : {"none"}]
       \cup [op : {"vote"}, project_id : Projects, entry_id : EntryIds, vote_type : VoteTypes]

NoMeta == [project_id |-> "none"]

\* the position of the point of that id in a collection, 0 when it has none
PositionOf(points, entry_id) ==
    IF \E i \in 1..Len(points) : points[i].id = entry_id
    THEN CHOOSE i \in 1..Len(points) : points[i].id = entry_id
    ELSE 0

\* res = collection.get(ids=[entry_id], include=["metadatas"])
GetMetadatas(collection, entry_id) ==
    LET i == PositionOf(collection.points, entry_id) IN
    IF i = 0 THEN [ids |-> <<>>, metadatas |-> <<>>]
    ELSE [ids |-> <<entry_id>>, metadatas |-> <<collection.points[i].metadata>>]

\* collection.update(ids=[entry_id], metadatas=[meta]) on the client: every key
\* of meta replaces the stored one; an id the collection lacks is skipped
UpdateMetadatas(project_id, entry_id, meta) ==
    LET cname == CollectionName(project_id)
        i == PositionOf(collections[cname].points, entry_id) IN
    IF i = 0 THEN collections
    ELSE [collections EXCEPT ![cname].points[i].metadata = meta]

\* mutant: the hit count is written, the access time is not
HitMetaNoTime(meta, now) ==
    [meta EXCEPT !.times_accessed = @ + 1]

\* mutant: the hit stamps the creation time as well
HitMetaCreatedNow(meta, now) ==
    [meta EXCEPT !.times_accessed = @ + 1, !.last_accessed_at = IsoFormat(now),
                 !.created_at = IsoFormat(now)]

\* meta as increment_entry_hit changes it before the update
HitMeta(meta, now) ==
    [meta EXCEPT !.times_accessed = @ + 1, !.last_accessed_at = IsoFormat(now)]

\* mutant: a dislike is counted as a like
VoteMetaAllLikes(meta, vote_type) ==
    [meta EXCEPT !.likes = IF vote_type \in {"like", "dislike"} THEN @ + 1 ELSE @]

\* mutant: a vote_type that is not "like" counts as a dislike
VoteMetaElseDislike(meta, vote_type) ==
    [meta EXCEPT !.likes = IF vote_type = "like" THEN @ + 1 ELSE @,
                 !.dislikes = IF vote_type # "like" THEN @ + 1 ELSE @]

\* meta as vote_entry changes it before the update
VoteMeta(meta, vote_type) ==
    [meta EXCEPT !.likes = IF vote_type = "like" THEN @ + 1 ELSE @,
                 !.dislikes = IF vote_type = "dislike" THEN @ + 1 ELSE @]

\* mutant: a missing entry is reported as an error
NotFoundRaises(op) == [error |-> "NotFound", project_id |-> "none"]

\* what the two operations return for a missing namespace or entry, and from
\* their except clause: False, and (0, 0)
NotFound(op) == IF op = "hit" THEN Returned(FALSE) ELSE Returned(<<0, 0>>)

\* the calls between their get and their update
Updating == {d \in EntryCalls : mpc[d] = "updating"}

\* a call up to its collection.get, with the metadata it will write
EntryCallStart(m, args, meta) ==
    /\ mpc[m] = "idle"
    /\ \A d \in 1..(m - 1) : mpc[d] # "idle"
    /\ margs' = [margs EXCEPT ![m] = args]
    /\ LET collection == GetProjectNamespace(args.project_id)
           res == GetMetadatas(collection, args.entry_id) IN
       IF collection = Absent \/ res.ids = <<>>
       THEN /\ mpc' = [mpc EXCEPT ![m] = "done"]
            /\ mresult' = [mresult EXCEPT ![m] = NotFound(args.op)]
            /\ UNCHANGED <<mmeta, mnow, mshared>>
       ELSE /\ mpc' = [mpc EXCEPT ![m] = "updating"]
            /\ mmeta' = [mmeta EXCEPT ![m] = meta]
            /\ mnow' = [mnow EXCEPT ![m] = clock]
            /\ mshared' = [d \in EntryCalls |->
                             IF d = m THEN Updating # {}
                             ELSE mshared[d] \/ d \in Updating]
            /\ UNCHANGED mresult

\* the metadata of the entry a call names, as stored now
StoredMeta(args) ==
    LET res == GetMetadatas(GetProjectNamespace(args.project_id), args.entry_id) IN
    IF res.ids = <<>> THEN NoMeta ELSE res.metadatas[1]

\* increment_entry_hit(project_id, entry_id) up to meta being ready
IncrementEntryHit(m) ==
    /\ UNCHANGED <<chainVars, geminiVars, adminVars, promptVars, rankVars, lookupVars>>
    /\ \E args \in {a \in EntryArgs : a.op = "hit"} :
          EntryCallStart(m, args, HitMeta(StoredMeta(args), clock))

\* vote_entry(project_id, entry_id, vote_type) up to meta being ready
VoteEntry(m) ==
    /\ UNCHANGED <<chainVars, geminiVars, adminVars, promptVars, rankVars, lookupVars>>
    /\ \E args \in {a \in EntryArgs : a.op = "vote"} :
          EntryCallStart(m, args, VoteMeta(StoredMeta(args), args.vote_type))

\* collection.update and the return; an update on a collection that is gone
\* raises, which the except clause turns into the not-found result
EntryCallUpdate(m, result) ==
    /\ mpc[m] = "updating"
    /\ mpc' = [mpc EXCEPT ![m] = "done"]
    /\ IF GetProjectNamespace(margs[m].project_id) = Absent
       THEN /\ UNCHANGED collections
            /\ mresult' = [mresult EXCEPT ![m] = NotFound(margs[m].op)]
       ELSE /\ collections' = UpdateMetadatas(margs[m].project_id, margs[m].entry_id,
                                              mmeta[m])
            /\ mresult' = [mresult EXCEPT ![m] = result]
    /\ mmeta' = [mmeta EXCEPT ![m] = NoMeta]
    /\ mnow' = [mnow EXCEPT ![m] = 0]
    /\ UNCHANGED <<clock, next_uuid, rpc, rargs, rnow, rresult, margs, mshared>>

\* increment_entry_hit: the update, then `return True`
IncrementEntryHitUpdate(m) ==
    /\ UNCHANGED <<chainVars, geminiVars, adminVars, rankVars, lookupVars>>
    /\ mpc[m] = "updating"
    /\ margs[m].op = "hit"
    /\ EntryCallUpdate(m, Returned(TRUE))

\* vote_entry: the update, then `return current_likes, current_dislikes`
VoteEntryUpdate(m) ==
    /\ UNCHANGED <<chainVars, geminiVars, adminVars, rankVars, lookupVars>>
    /\ mpc[m] = "updating"
    /\ margs[m].op = "vote"
    /\ EntryCallUpdate(m, Returned(<<mmeta[m].likes, mmeta[m].dislikes>>))

\* no increment_entry_hit or vote_entry call made
EntryQuiet ==
    /\ mpc = [m \in EntryCalls |-> "idle"]
    /\ margs = [m \in EntryCalls |-> NoArgs]
    /\ mmeta = [m \in EntryCalls |-> NoMeta]
    /\ mnow = [m \in EntryCalls |-> 0]
    /\ mresult = [m \in EntryCalls |-> NoResult]
    /\ mshared = [m \in EntryCalls |-> FALSE]

\* a handler whose project "alpha" holds two entries, the first with any of
\* the stored vote counts; "beta" has no namespace
EntryStoreInit ==
    /\ \E votes \in StoredVotes :
          collections = [cn \in CollectionNames |->
                           IF cn = CollectionName("alpha")
                           THEN Collection(<<StoredPoint(1, "alpha", "q1", votes),
                                             StoredPoint(2, "alpha", "q2", <<0, 0>>)>>)
                           ELSE Absent]
    /\ next_uuid = 2
    /\ clock = 0
    /\ rpc = [r \in CacheCalls |-> "idle"]
    /\ rargs = [r \in CacheCalls |-> NoArgs]
    /\ rnow = [r \in CacheCalls |-> 0]
    /\ rresult = [r \in CacheCalls |-> NoResult]

\* hits and votes at any times, in any interleaving
EntryNext ==
    \/ Tick
    \/ \E m \in EntryCalls : IncrementEntryHit(m)
    \/ \E m \in EntryCalls : IncrementEntryHitUpdate(m)
    \/ \E m \in EntryCalls : VoteEntry(m)
    \/ \E m \in EntryCalls : VoteEntryUpdate(m)


(***************************************************************************)
(* Namespace management, deletion, statistics and listing.  These methods  *)
(* are synchronous and suspend nowhere: each call is one step.  opResult    *)
(* holds the latest of these calls and what it returned or raised.          *)
(***************************************************************************)
\* no such call made yet
NoOp == [op |-> "none"]

\* the call `op` with arguments `args` came back with `result`
Called(op, args, result) == [op |-> op, args |-> args, result |-> result]

\* the entry_ids lists callers send to delete_entries: ids stored, an id never
\* stored (9), repeated ids
DeleteIds == {1, 2, 9}
DeleteIdLists == {<<a>> : a \in DeleteIds} \cup {<<a, b>> : a \in DeleteIds, b \in DeleteIds}

\* the offsets callers send to list_entries
Offsets == {0, 1}

\* the elements of a list
Elements(list) == {list[i] : i \in 1..Len(list)}

\* the points whose id is not among ids, in their order
RECURSIVE Without(_, _)
Without(points, ids) ==
    IF points = <<>> THEN <<>>
    ELSE IF points[1].id \in ids THEN Without(Tail(points), ids)
    ELSE <<points[1]>> \o Without(Tail(points), ids)

\* create_project_namespace called for its result
CallCreateProjectNamespace(project_id) ==
    /\ UNCHANGED <<chainVars, geminiVars, rankVars, lookupVars, entryVars>>
    /\ collections' = CreateNamespace(project_id).collections
    /\ opResult' = Called("create", [project_id |-> project_id],
                          CreateNamespace(project_id).result)
    /\ UNCHANGED <<clock, next_uuid, rpc, rargs, rnow, rresult, aux_collections>>

\* clear_project_cache called for its result
CallClearProjectCache(project_id) ==
    /\ UNCHANGED <<chainVars, geminiVars, rankVars, lookupVars, entryVars>>
    /\ collections' = ClearNamespace(project_id).collections
    /\ opResult' = Called("clear", [project_id |-> project_id],
                          ClearNamespace(project_id).result)
    /\ UNCHANGED <<clock, next_uuid, rpc, rargs, rnow, rresult, aux_collections>>

\* collection.delete(ids=entry_ids): the points left; an id the collection
\* lacks is skipped
DeletedFrom(points, entry_ids) == Without(points, Elements(entry_ids))

\* delete_entries(project_id, entry_ids)
DeleteEntries(project_id, entry_ids) ==
    /\ UNCHANGED <<chainVars, geminiVars, rankVars, lookupVars, entryVars>>
    /\ LET collection == GetProjectNamespace(project_id) IN
       IF collection = Absent
       THEN /\ UNCHANGED collections
            /\ opResult' = Called("delete", [project_id |-> project_id, entry_ids |-> entry_ids],
                                  Returned(0))
       ELSE /\ collections' = [collections EXCEPT ![CollectionName(project_id)] =
                                  Collection(DeletedFrom(collection.points, entry_ids))]
            /\ opResult' = Called("delete", [project_id |-> project_id, entry_ids |-> entry_ids],
                                  Returned(Len(entry_ids)))
    /\ UNCHANGED <<clock, next_uuid, rpc, rargs, rnow, rresult, aux_collections>>

\* round(total / count, 1) in tenths, halves to the even tenth
RoundedMean(total, count) ==
    LET n == 10 * total
        q == n \div count
        r == n % count IN
    IF 2 * r < count THEN q
    ELSE IF 2 * r > count THEN q + 1
    ELSE IF q % 2 = 0 THEN q ELSE q + 1

\* the loop of get_project_stats over the metadatas, from the i-th on
RECURSIVE StatsLoop(_, _, _, _)
StatsLoop(metas, i, total_hits, total_compression) ==
    IF i > Len(metas)
    THEN [total_hits |-> total_hits, total_compression |-> total_compression]
    ELSE StatsLoop(metas, i + 1, total_hits + metas[i].times_accessed,
                   total_compression + metas[i].compression_ratio)

\* mutant: total_hits counts the entries, not their accesses
ProjectStatsCountingEntries(project_id) ==
    LET collection == GetProjectNamespace(project_id) IN
    IF collection = Absent THEN [total_entries |-> 0, total_hits |-> 0]
    ELSE LET count == Len(collection.points) IN
         [total_entries |-> count,
          total_hits |-> count,
          avg_compression |-> 0]

\* get_project_stats(project_id): the dict returned (avg_compression in tenths)
ProjectStats(project_id) ==
    LET collection == GetProjectNamespace(project_id) IN
    IF collection = Absent THEN [total_entries |-> 0, total_hits |-> 0]
    ELSE LET metas == [i \in 1..Len(collection.points) |-> collection.points[i].metadata]
             count == Len(metas)
             sums == StatsLoop(metas, 1, 0, 0) IN
         [total_entries |-> count,
          total_hits |-> sums.total_hits,
          avg_compression |-> IF count > 0 THEN RoundedMean(sums.total_compression, count)
                              ELSE 0]

\* get_project_stats called
GetProjectStats(project_id) ==
    /\ UNCHANGED <<chainVars, geminiVars, rankVars, lookupVars, entryVars>>
    /\ opResult' = Called("stats", [project_id |-> project_id],
                          Returned(ProjectStats(project_id)))
    /\ UNCHANGED <<promptVars, aux_collections>>

\* the orders in which collection.get can deliver the points of a collection:
\* the store promises none
GetOrders(points) ==
    LET n == Len(points) IN
    {order \in [1..n -> 1..n] : \A i, j \in 1..n : i # j => order[i] # order[j]}

\* collection.get(limit=limit, offset=offset): at most `limit` points from the
\* offset-th on
GetPage(points, order, limit, offset) ==
    [i \in 1..Max(0, Min(limit, Len(points) - offset)) |-> points[order[offset + i]]]

\* the CachedPromptEntry list_entries builds from a point; score keeps the
\* default of the dataclass
ListedEntry(point, project_id) ==
    [entry_id |-> point.id,
     project_id |-> point.metadata.project_id,
     user_id |-> point.metadata.user_id,
     key_embedding |-> point.embedding,
     prompt |-> point.document,
     answer |-> point.metadata.answer,
     compressed_prompt |-> point.metadata.compressed_prompt,
     compression_ratio |-> point.metadata.compression_ratio,
     original_tokens |-> point.metadata.original_tokens,
     compressed_tokens |-> point.metadata.compressed_tokens,
     created_at |-> FromIsoFormat(point.metadata.created_at),
     times_accessed |-> point.metadata.times_accessed,
     last_accessed_at |-> FromIsoFormat(point.metadata.last_accessed_at),
     likes |-> point.metadata.likes,
     dislikes |-> point.metadata.dislikes,
     score |-> 100]

\* mutant: the sort lacks reverse=True
InsertByLastAccessAscending(sorted, entry) ==
    LET before == {i \in 1..Len(sorted) :
                      sorted[i].last_accessed_at <= entry.last_accessed_at}
        k == Cardinality(before) IN
    SubSeq(sorted, 1, k) \o <<entry>> \o SubSeq(sorted, k + 1, Len(sorted))

\* one entry put into a list sorted by non-increasing last_accessed_at, after
\* every entry whose last_accessed_at is not earlier
InsertByLastAccess(sorted, entry) ==
    LET before == {i \in 1..Len(sorted) :
                      sorted[i].last_accessed_at >= entry.last_accessed_at}
        k == Cardinality(before) IN
    SubSeq(sorted, 1, k) \o <<entry>> \o SubSeq(sorted, k + 1, Len(sorted))

\* entries.sort(key=lambda x: x.last_accessed_at, reverse=True): a stable sort
RECURSIVE SortByLastAccessFrom(_, _, _)
SortByLastAccessFrom(entries, i, sorted) ==
    IF i > Len(entries) THEN sorted
    ELSE SortByLastAccessFrom(entries, i + 1, InsertByLastAccess(sorted, entries[i]))

\* list_entries(project_id, limit, offset), collection.get delivering the
\* points in `order`
ListedEntries(project_id, limit, offset, order) ==
    LET collection == GetProjectNamespace(project_id) IN
    IF collection = Absent THEN <<>>
    ELSE LET page == GetPage(collection.points, order, limit, offset)
             entries == [i \in 1..Len(page) |-> ListedEntry(page[i], project_id)] IN
         SortByLastAccessFrom(entries, 1, <<>>)

\* list_entries called
ListEntries(project_id, limit, offset) ==
    /\ UNCHANGED <<chainVars, geminiVars, rankVars, lookupVars, entryVars>>
    /\ \E order \in GetOrders(GetProjectNamespace(project_id).points) :
          opResult' = Called("list", [project_id |-> project_id, limit |-> limit,
                                      offset |-> offset],
                             Returned(ListedEntries(project_id, limit, offset, order)))
    /\ UNCHANGED <<promptVars, aux_collections>>

\* [collection.name for collection in self.client.list_collections()]: the
\* names of all collections of the client, as a set
ProjectNamespaces ==
    {cn \in CollectionNames : collections[cn] # Absent}
       \cup {cn \in AuxNames : aux_collections[cn] # Absent}

\* the property project_namespaces read
ReadProjectNamespaces ==
    /\ UNCHANGED <<chainVars, geminiVars, rankVars, lookupVars, entryVars>>
    /\ opResult' = Called("namespaces", <<>>, Returned(ProjectNamespaces))
    /\ UNCHANGED <<promptVars, aux_collections>>

\* the point upsert_user writes for an employee registered at `registered_at`
UserPoint(employee_id, registered_at) ==
    [id |-> employee_id,
     document |-> "full name",
     metadata |-> [employee_id |-> employee_id, full_name |-> "full name",
                   project_name |-> "alpha", registered_at |-> registered_at]]

\* upsert_user(employee_id, full_name, project_name): the "users" collection is
\* fetched or created and the employee's point written, registered_at kept
\* when the employee has one
UpsertUser(employee_id) ==
    /\ UNCHANGED <<chainVars, geminiVars, rankVars, lookupVars, entryVars>>
    /\ LET points == aux_collections[<<"users">>].points
           i == PositionOf(points, employee_id)
           registered_at == IF i = 0 THEN IsoFormat(clock)
                            ELSE points[i].metadata.registered_at
           point == UserPoint(employee_id, registered_at) IN
       /\ aux_collections' =
             [aux_collections EXCEPT ![<<"users">>] =
                 Collection(IF i = 0 THEN Append(points, point)
                            ELSE [points EXCEPT ![i] = point])]
       /\ opResult' = Called("upsert_user", [employee_id |-> employee_id],
                             Returned(point.metadata))
    /\ UNCHANGED promptVars

\* record_prompt_activity(...): the "prompt_history" collection is fetched or
\* created and one point added under a fresh uuid4
RecordPromptActivity(employee_id, project_id) ==
    /\ UNCHANGED <<chainVars, geminiVars, rankVars, lookupVars, entryVars>>
    /\ Len(aux_collections[<<"prompt_history">>].points) < MaxHistory
    /\ LET activity_id == next_uuid + 1
           point == [id |-> activity_id,
                     document |-> "query",
                     metadata |-> [employee_id |-> employee_id, project_id |-> project_id,
                                   timestamp |-> IsoFormat(clock), cached |-> "False",
                                   rating |-> -1, rating_reason |-> ""]] IN
       /\ aux_collections' =
             [aux_collections EXCEPT ![<<"prompt_history">>] =
                 Collection(Append(@.points, point))]
       /\ next_uuid' = activity_id
       /\ opResult' = Called("record", [employee_id |-> employee_id,
                                        project_id |-> project_id],
                             Returned(activity_id))
    /\ UNCHANGED <<collections, clock, rpc, rargs, rnow, rresult>>

\* none of these calls made, no user registered and no prompt recorded
AdminQuiet ==
    /\ opResult = NoOp
    /\ aux_collections = [cn \in AuxNames |-> Absent]

\* how often the entries a namespace holds at the start were hit, and when last
StoredAccesses == {<<0, 0>>, <<1, 1>>, <<2, 2>>}

\* the point of an entry cached at time 0 and hit since
AccessedPoint(entry_id, project_id, prompt, access) ==
    LET point == StoredPoint(entry_id, project_id, prompt, <<0, 0>>) IN
    [point EXCEPT !.metadata.times_accessed = @ + access[1],
                  !.metadata.last_accessed_at = IsoFormat(access[2])]

\* a handler whose project "alpha" holds up to MaxStored entries; "beta" has no
\* namespace
AdminStoreInit ==
    /\ \E n \in 0..MaxStored :
          \E ac \in [1..n -> StoredAccesses] :
             /\ collections = [cn \in CollectionNames |->
                                 IF cn = CollectionName("alpha")
                                 THEN Collection([i \in 1..n |->
                                         AccessedPoint(i, "alpha", "q1", ac[i])])
                                 ELSE Absent]
             /\ next_uuid = n
    /\ clock = 2
    /\ rpc = [r \in CacheCalls |-> "idle"]
    /\ rargs = [r \in CacheCalls |-> NoArgs]
    /\ rnow = [r \in CacheCalls |-> 0]
    /\ rresult = [r \in CacheCalls |-> NoResult]

\* namespace management, deletion, statistics and listing, in any order
AdminNext ==
    \/ \E p \in Projects : CallCreateProjectNamespace(p)
    \/ \E p \in Projects : CallClearProjectCache(p)
    \/ \E p \in Projects : \E ids \in DeleteIdLists : DeleteEntries(p, ids)
    \/ \E p \in Projects : GetProjectStats(p)
    \/ \E p \in Projects : \E limit \in 1..MaxLimit : \E offset \in Offsets :
          ListEntries(p, limit, offset)
    \/ ReadProjectNamespaces
    \/ \E u \in Users : UpsertUser(u)
    \/ \E u \in Users : RecordPromptActivity(u, "alpha")


(***************************************************************************)
(* Properties of the provider chain.                                        *)
(***************************************************************************)
\* call c is over and the chain handed a text back
ChainReturned(c) == cpc[c] = "returned"

\* C1: complete never raises: whatever the provider list and whatever each
\* provider does (returns a text or raises an Exception), a call that is over
\* without having been cancelled has returned a text to its caller.
C1_ChainNeverRaises ==
    \A c \in ChainCalls :
        /\ cpc[c] # "raised"
        /\ cpc[c] \notin {"idle", "awaiting", "cancelled"} =>
              /\ ChainReturned(c)
              /\ cresult[c] # NoText
              /\ cresult[c].by \in ProviderNames

\* C1 witness: every provider of the list raised (the mock included) and the
\* call still returned a text
C1_Witness ==
    \E c \in ChainCalls :
        /\ ChainReturned(c)
        /\ Len(providers) >= 2
        /\ Len(craised[c]) = Len(providers)
        /\ cresult[c] = CannedText("default")

\* C2: within one call the providers are invoked in list order, each at most
\* once; provider i is invoked only after providers 1..i-1 have raised, and
\* after a provider has returned (or the call was cancelled) none follows.
C2_InvokedInListOrder ==
    \A c \in ChainCalls :
        /\ \A j \in 1..Len(cinvoked[c]) : cinvoked[c][j] = j
        /\ \A j \in 1..Len(craised[c]) : craised[c][j] = j
        /\ Len(cinvoked[c]) <= Len(providers)
        /\ Len(craised[c]) <= Len(cinvoked[c])
        /\ Len(cinvoked[c]) <= Len(craised[c]) + 1
        /\ cpc[c] \in {"awaiting", "cancelled"} =>
              /\ Len(cinvoked[c]) = Len(craised[c]) + 1
              /\ cidx[c] = Len(cinvoked[c])
        /\ (ChainReturned(c) /\ Len(cinvoked[c]) = Len(craised[c]) + 1) =>
              cresult[c].by = providers[Len(cinvoked[c])]

\* C2 witness: a call returned from its third provider after the first two
\* raised, and another call was cancelled at its second provider
C2_Witness ==
    \E c, d \in ChainCalls :
        /\ ChainReturned(c)
        /\ cinvoked[c] = <<1, 2, 3>>
        /\ craised[c] = <<1, 2>>
        /\ cpc[d] = "cancelled"
        /\ cinvoked[d] = <<1, 2>>

\* C3: when a call returns, the chain's name is the name of the provider that
\* produced the returned text, whatever other calls are in flight.
C3_NameIsServingProvider ==
    \A c \in ChainCalls : ChainReturned(c) => creported[c] = cresult[c].by

\* C3 witness: two calls were in flight together and returned texts of
\* different providers
C3_Witness ==
    \E c, d \in ChainCalls :
        /\ ChainReturned(c)
        /\ ChainReturned(d)
        /\ cresult[c].by # cresult[d].by
        /\ cresult[c].key = "generated"
        /\ cresult[d].key = "generated"
        /\ coverlap[c]
        /\ creported[c] # name

\* the chain was built from two providers, neither a mock, and both raised in call c
TwoGivenBothRaised(c) ==
    /\ Len(given) = 2
    /\ ~IsMock(given[1])
    /\ ~IsMock(given[2])
    /\ ChainReturned(c)
    /\ Len(craised[c]) >= 2

\* C4 as stated: with two providers that both raise, every prompt gets the
\* canned default response, reported as "mock".
C4_AlwaysDefaultResponse ==
    \A c \in ChainCalls :
        TwoGivenBothRaised(c) =>
            /\ cresult[c] = CannedText("default")
            /\ creported[c] = "mock"

\* C4 amended: with two providers that both raise, complete returns the canned
\* response MockLLMProvider selects for the prompt by keyword (the default
\* response when no keyword occurs in it), reported as "mock".
C4_CannedResponseByKeyword ==
    \A c \in ChainCalls :
        TwoGivenBothRaised(c) =>
            /\ creported[c] = "mock"
            /\ cresult[c].by = "mock"
            /\ cresult[c].key =
                  (IF cprompt[c].isStr THEN MockResponseKey(cprompt[c].chars) ELSE "default")
            /\ (cprompt[c] = Str(<<"h", "i">>)) => cresult[c].key = "default"
            /\ (cprompt[c] = Str(<<"s", "t", "o", "r", "a", "g", "e">>)) => cresult[c].key = "rag"

\* C4 witness: both given providers raised and the prompt holds a keyword
C4_Witness ==
    \E c \in ChainCalls :
        /\ TwoGivenBothRaised(c)
        /\ cprompt[c] = Str(<<"R", "A", "G">>)
        /\ cresult[c] = CannedText("rag")


(***************************************************************************)
(* Properties of the key-rotating provider.                                 *)
(***************************************************************************)
NumKeys == Len(api_keys)

\* the credential at offset j (1 for the first) in cyclic list order from cursor `from`
CyclicKey(from, j) == api_keys[((from + j - 1) % NumKeys) + 1]

\* the last element of a non-empty sequence
Last(seq) == seq[Len(seq)]

\* the errors after which the provider goes on to the next credential
SoftErrors == {"rate_limited", "http_error"}

\* C5: a call that runs with no other call in flight makes at most n
\* attempts, tries no credential twice, and tries the credentials in cyclic
\* list order starting at the rotation cursor.
C5_EachKeyAtMostOnce ==
    \A c \in GeminiCalls :
        ~gshared[c] =>
            /\ Len(gkeys[c]) <= NumKeys
            /\ \A i, j \in 1..Len(gkeys[c]) : i # j => gkeys[c][i] # gkeys[c][j]
            /\ \A j \in 1..Len(gkeys[c]) : gkeys[c][j] = CyclicKey(gstart[c], j)

\* C5 witness: a call that ran alone started at cursor 1 of 2 keys and tried
\* both, wrapping around
C5_Witness ==
    \E c \in GeminiCalls :
        /\ ~gshared[c]
        /\ NumKeys = 2
        /\ gstart[c] = 1
        /\ gkeys[c] = <<1, 0>>
        /\ gpc[c] = "failed"

\* the number of attempts all calls have made so far
RECURSIVE AttemptsUpTo(_)
AttemptsUpTo(c) == IF c = 0 THEN 0 ELSE Len(gkeys[c]) + AttemptsUpTo(c - 1)

\* C6: with n >= 1 keys the cursor stays within 0..n-1, has advanced by one
\* (mod n) for every attempt made, the successful ones included, and carries
\* over from call to call: a call's first credential is the one after the
\* last credential the previous call tried.
C6_CursorRoundRobin ==
    NumKeys >= 1 =>
        /\ current_key_index \in 0..(NumKeys - 1)
        /\ current_key_index = AttemptsUpTo(NumGeminiCalls) % NumKeys
        /\ lastTried # -1 => current_key_index = (lastTried + 1) % NumKeys
        /\ \A c \in GeminiCalls : gpc[c] # "idle" => gkeys[c][1] = api_keys[gstart[c] + 1]
        /\ \A d \in GeminiCalls \ {1} :
              (gpc[d] # "idle" /\ ~gshared[d] /\ ~gshared[d - 1]) =>
                  gkeys[d][1] = api_keys[((Last(gkeys[d - 1]) + 1) % NumKeys) + 1]

\* C6 witness: the first call succeeded at its first credential, and the
\* next call, started afterwards, began at the second and wrapped around
C6_Witness ==
    /\ NumKeys = 2
    /\ gpc[1] = "returned"
    /\ gkeys[1] = <<0>>
    /\ ~gshared[2]
    /\ gkeys[2] = <<1, 0>>
    /\ current_key_index = 1

C8_ExhaustedRaisesLastError ==
    \A c \in GeminiCalls :
        /\ (gpc[c] = "failed" /\ gresult[c].kind \in SoftErrors) =>
              /\ Len(gkeys[c]) = NumKeys
              /\ gresult[c].attempt = NumKeys
              /\ gresult[c] = glast_error[c]
        /\ (glast_error[c].kind \in SoftErrors /\ glast_error[c].attempt = NumKeys) =>
              /\ gpc[c] = "failed"
              /\ gresult[c] = glast_error[c]
        /\ (gpc[c] = "awaiting" /\ glast_error[c] # NoError) =>
              glast_error[c].attempt = Len(gkeys[c]) - 1

\* C8 witness: two credentials, the first rate-limited and the last failing
\* in transport; the call raised that transport error
C8_Witness ==
    \E c \in GeminiCalls :
        /\ NumKeys = 2
        /\ gpc[c] = "failed"
        /\ Len(gkeys[c]) = 2
        /\ glast_error[c] = TransportError(1)
        /\ gresult[c] = TransportError(1)


(***************************************************************************)
(* Properties of the cache engine.                                          *)
(***************************************************************************)
\* the ids of the points a collection holds
IdsOf(points) == {points[i].id : i \in 1..Len(points)}

\* C9: the step on which cache_prompt succeeds adds exactly one point at the
\* end of the project's namespace and returns its id, which no earlier point of
\* the namespace has; the point stores times_accessed = 1, equal created_at and
\* last_accessed_at, no votes, and the prompt, answer and compression arguments
\* of the call; every point stored before, in this namespace and in the others,
\* is still there unchanged.
C9_CachePromptAddsOneEntry ==
    [][\A r \in CacheCalls :
         (rpc[r] = "embedding" /\ rpc'[r] = "done") =>
            LET args == rargs[r]
                cn == CollectionName(args.project_id)
                before == collections[cn].points
                after == collections'[cn].points
                pt == after[Len(after)] IN
            /\ collections[cn].exists /\ collections'[cn].exists
            /\ Len(after) = Len(before) + 1
            /\ SubSeq(after, 1, Len(before)) = before
            /\ pt.id \notin IdsOf(before)
            /\ rresult'[r] = Returned(pt.id)
            /\ pt.metadata.times_accessed = 1
            /\ pt.metadata.created_at = pt.metadata.last_accessed_at
            /\ FromIsoFormat(pt.metadata.created_at) = rnow[r]
            /\ pt.metadata.likes = 0
            /\ pt.metadata.dislikes = 0
            /\ pt.document = args.prompt
            /\ pt.metadata.answer = args.answer
            /\ pt.metadata.project_id = args.project_id
            /\ pt.metadata.user_id = args.user_id
            /\ pt.metadata.compressed_prompt = args.compression.compressed_prompt
            /\ pt.metadata.compression_ratio = args.compression.compression_ratio
            /\ pt.metadata.original_tokens = args.compression.original_tokens
            /\ pt.metadata.compressed_tokens = args.compression.compressed_tokens
            /\ \A other \in CollectionNames \ {cn} :
                  collections'[other] = collections[other]
      ]_vars

\* a call returned the id of the entry it appended to a namespace that already
\* held an entry, some time after the call had read the clock
C9_Witness ==
    \E r \in CacheCalls :
        LET points == collections[CollectionName(rargs[r].project_id)].points IN
        /\ rpc[r] = "done"
        /\ Len(points) = 2
        /\ rresult[r] = Returned(points[2].id)
        /\ points[1].id # points[2].id
        /\ clock > rnow[r]

\* C10: the step on which cache_prompt fails leaves every collection as it was
\* and raises either the embedding call's own error or NamespaceNotFound for the
\* call's project; and whenever the project has no namespace at the step that
\* ends the call, the call fails and no namespace appears.
C10_FailedCachePromptLeavesStore ==
    [][\A r \in CacheCalls :
         (rpc[r] = "embedding" /\ rpc'[r] # "embedding") =>
            LET project_id == rargs[r].project_id IN
            /\ (rpc'[r] = "failed") =>
                  /\ collections' = collections
                  /\ rresult'[r] \in {EmbeddingError, NamespaceNotFound(project_id)}
                  /\ (rresult'[r] = NamespaceNotFound(project_id)) =>
                        GetProjectNamespace(project_id) = Absent
            /\ (GetProjectNamespace(project_id) = Absent) =>
                  /\ rpc'[r] = "failed"
                  /\ collections' = collections
      ]_vars

\* one call failed for want of a namespace that is still absent, another on
\* its embedding, and the store holds no entry
C10_Witness ==
    \E r, q \in CacheCalls :
        /\ rpc[r] = "failed" /\ rpc[q] = "failed"
        /\ rresult[r] = NamespaceNotFound(rargs[r].project_id)
        /\ GetProjectNamespace(rargs[r].project_id) = Absent
        /\ rresult[q] = EmbeddingError
        /\ GetProjectNamespace(rargs[q].project_id) = Collection(<<>>)


(***************************************************************************)
(* Properties of the hybrid ranking.                                        *)
(***************************************************************************)
\* clamp(x, lo, hi)
Clamp(x, lo, hi) == IF x < lo THEN lo ELSE IF x > hi THEN hi ELSE x

\* the boost the ranking loop added to the similarity of a ranked pair
BoostOf(pair) == pair.hybrid_score - pair.entry.score

\* C14: for every candidate the ranking loop has scored, the boost it added
\* to the similarity is clamp(0.01 * (likes - dislikes), -0.1, 0.2): it lies
\* in [-0.1, 0.2], is 0.2 for 1000 net likes and -0.1 for 1000 net dislikes.
C14_VoteBoostClamped ==
    (kpc = "done") =>
        /\ Len(ranked_candidates) = Len(candidates)
        /\ \A i \in 1..Len(ranked_candidates) :
              LET pair == ranked_candidates[i]
                  net == pair.entry.likes - pair.entry.dislikes IN
              /\ BoostOf(pair) = Clamp(1 * net, -10, 20)
              /\ BoostOf(pair) >= -10
              /\ BoostOf(pair) <= 20
              /\ (net = 1000) => BoostOf(pair) = 20
              /\ (net = -1000) => BoostOf(pair) = -10

\* the loop has scored a candidate with 1000 net likes, one with 1000 net
\* dislikes and one whose boost is not capped
C14_Witness ==
    /\ kpc = "done"
    /\ \E i, j, k \in 1..Len(ranked_candidates) :
          /\ ranked_candidates[i].entry.likes - ranked_candidates[i].entry.dislikes = 1000
          /\ ranked_candidates[j].entry.likes - ranked_candidates[j].entry.dislikes = -1000
          /\ BoostOf(ranked_candidates[k]) = -3


(***************************************************************************)
(* Properties of lookup_prompt.                                             *)
(***************************************************************************)
\* the raw similarity of a stored point to the prompt of the lookup
SimilarityTo(prompt, point) == 100 - CosineDistance(EmbeddingOf(prompt), point.embedding)

\* the hybrid score of a stored point for the prompt of the lookup
HybridTo(prompt, point) ==
    SimilarityTo(prompt, point)
       + Clamp(point.metadata.likes - point.metadata.dislikes, -10, 20)

\* the stored point of that id
PointById(points, id) == points[CHOOSE i \in 1..Len(points) : points[i].id = id]

\* the points of the namespace the lookup is addressed to
LookupPoints == GetProjectNamespace(largs.project_id).points

\* C11: the list a lookup returned is in order of non-increasing hybrid score
\* (the stored point's similarity to the prompt plus its vote boost), and the
\* score reported for each entry, also in the router's result, is the stored
\* point's raw similarity.
C11_SortedByHybridScoreRawReported ==
    (lpc = "done") =>
        LET entries == lresult.value
            results == CacheLookupResults(entries) IN
        /\ \A i \in 1..(Len(entries) - 1) :
              HybridTo(largs.prompt, PointById(LookupPoints, entries[i].entry_id))
                 >= HybridTo(largs.prompt, PointById(LookupPoints, entries[i + 1].entry_id))
        /\ \A i \in 1..Len(entries) :
              /\ entries[i].score
                    = SimilarityTo(largs.prompt, PointById(LookupPoints, entries[i].entry_id))
              /\ results[i].score = entries[i].score
              /\ results[i].entry_id = entries[i].entry_id

\* a lookup returned two entries, the first with the lower raw similarity
C11_Witness ==
    /\ lpc = "done"
    /\ Len(lresult.value) = 2
    /\ lresult.value[1].score < lresult.value[2].score
    /\ CacheLookupResults(lresult.value)[1].score = 96

\* C12: the step on which a lookup returns gives a list, not an error; every
\* entry in it has a raw similarity of at least the threshold whatever its
\* votes; and the list is empty when the namespace is absent, holds nothing,
\* or holds no point of that similarity (with threshold 1.0, no point of the
\* identical embedding).
C12_ThresholdOnRawSimilarity ==
    [][(lpc = "embedding" /\ lpc' = "done") =>
          LET entries == lresult'.value IN
          /\ lresult'.error = "ok"
          /\ \A i \in 1..Len(entries) :
                SimilarityTo(largs.prompt, PointById(LookupPoints, entries[i].entry_id))
                   >= largs.threshold
          /\ (GetProjectNamespace(largs.project_id) = Absent) => entries = <<>>
          /\ (LookupPoints = <<>>) => entries = <<>>
          /\ (\A i \in 1..Len(LookupPoints) :
                 SimilarityTo(largs.prompt, LookupPoints[i]) < largs.threshold)
                => entries = <<>>
          /\ (largs.threshold = 100 /\
              \A i \in 1..Len(LookupPoints) :
                 LookupPoints[i].embedding # EmbeddingOf(largs.prompt))
                => entries = <<>>
      ]_vars

\* a lookup with threshold 1.0 returned nothing from a namespace that holds a
\* near duplicate whose votes lift its hybrid score above 1.0
C12_Witness ==
    /\ lpc = "done"
    /\ largs.threshold = 100
    /\ lresult = Returned(<<>>)
    /\ \E i \in 1..Len(LookupPoints) :
          /\ SimilarityTo(largs.prompt, LookupPoints[i]) = 96
          /\ HybridTo(largs.prompt, LookupPoints[i]) > 100

RoundTripDone ==
    /\ rpc[1] = "done"
    /\ rresult[1] = Returned(next_uuid)
    /\ lseen = next_uuid
    /\ lpc = "done"
    /\ largs.project_id = rargs[1].project_id
    /\ largs.prompt = rargs[1].prompt
    /\ largs.limit = 1
    /\ largs.threshold = 0

\* the lookup returned exactly one entry, with the prompt and the answer that
\* cache_prompt call 1 stored and the similarity of an identical embedding
RoundTripFound ==
    /\ Len(lresult.value) = 1
    /\ lresult.value[1].prompt = rargs[1].prompt
    /\ lresult.value[1].answer = rargs[1].answer
    /\ lresult.value[1].score = 100

\* the other points of the namespace are all less similar to the prompt than
\* an identical embedding and have a hybrid score below that similarity
Unrivalled ==
    \A i \in 1..Len(LookupPoints) :
        (LookupPoints[i].id # rresult[1].value) =>
            /\ SimilarityTo(largs.prompt, LookupPoints[i]) < 100
            /\ HybridTo(largs.prompt, LookupPoints[i]) < 100

\* C15 as stated: whatever the namespace already holds, a lookup right after
\* cache_prompt with the identical prompt, limit 1 and threshold 0 returns
\* exactly the entry just stored, with the maximum similarity.
C15_RoundTripWhateverStored ==
    RoundTripDone => RoundTripFound

\* C15 amended: the round trip returns exactly the entry just stored, with the
\* maximum similarity, when every other entry of the namespace is less similar
\* to the prompt than an identical embedding and has a hybrid score below the
\* maximum similarity.
C15_RoundTripWhenUnrivalled ==
    (RoundTripDone /\ Unrivalled) => RoundTripFound

\* a round trip found the new entry in a namespace that holds a liked near
\* duplicate and a liked entry of another prompt
C15_Witness ==
    /\ RoundTripDone
    /\ Unrivalled
    /\ RoundTripFound
    /\ Len(LookupPoints) = 3
    /\ \E i \in 1..Len(LookupPoints) :
          /\ SimilarityTo(largs.prompt, LookupPoints[i]) = 96
          /\ LookupPoints[i].metadata.likes = 0
          /\ LookupPoints[i].metadata.dislikes = 5
    /\ \E i \in 1..Len(LookupPoints) :
          /\ SimilarityTo(largs.prompt, LookupPoints[i]) < 96
          /\ LookupPoints[i].metadata.likes = 5


(***************************************************************************)
(* Properties of increment_entry_hit and vote_entry.                        *)
(***************************************************************************)
\* the metadata stored for an entry in a client, NoMeta when there is none
MetaIn(colls, project_id, entry_id) ==
    LET collection == colls[CollectionName(project_id)]
        i == PositionOf(collection.points, entry_id) IN
    IF i = 0 THEN NoMeta ELSE collection.points[i].metadata

\* call m is making its update, and no other call was between its get and
\* its update at any time since m's get
UpdatesAlone(m, op) ==
    /\ mpc[m] = "updating"
    /\ mpc'[m] = "done"
    /\ margs[m].op = op
    /\ ~mshared[m]

\* C16: an increment_entry_hit call that runs without another call in between
\* leaves the entry's stored times_accessed one higher than before, its
\* last_accessed_at at the time the call read, every other field as it was, and
\* returns True; when the second of two such calls on the entry returns,
\* times_accessed is two higher than before the first and last_accessed_at is
\* the time the second call read.
C16_HitCountsOnce ==
    [][\A m \in EntryCalls :
         UpdatesAlone(m, "hit") =>
            LET before == MetaIn(collections, margs[m].project_id, margs[m].entry_id)
                after == MetaIn(collections', margs[m].project_id, margs[m].entry_id) IN
            /\ mresult'[m] = Returned(TRUE)
            /\ after.times_accessed = before.times_accessed + 1
            /\ after.last_accessed_at = IsoFormat(mnow[m])
            /\ mnow[m] <= clock
            /\ after = [before EXCEPT !.times_accessed = after.times_accessed,
                                      !.last_accessed_at = after.last_accessed_at]
            /\ (/\ m = 2
                /\ margs[1] = margs[2]
                /\ mresult[1] = Returned(TRUE)
                /\ ~mshared[1]
                /\ \A d \in EntryCalls : d > 2 => mpc[d] = "idle")
                  => /\ after.times_accessed = 1 + 2
                     /\ after.last_accessed_at = IsoFormat(mnow[2])
      ]_vars

\* two hits on the first entry, one after the other at different times, have
\* returned True: times_accessed went from 1 to 3 and last_accessed_at is the
\* later time
C16_Witness ==
    /\ mpc[1] = "done" /\ mpc[2] = "done"
    /\ margs[1].op = "hit" /\ margs[2] = margs[1]
    /\ mresult[1] = Returned(TRUE) /\ mresult[2] = Returned(TRUE)
    /\ ~mshared[1] /\ ~mshared[2]
    /\ MetaIn(collections, "alpha", 1).times_accessed = 3
    /\ MetaIn(collections, "alpha", 1).last_accessed_at = IsoFormat(2)
    /\ MetaIn(collections, "alpha", 1).created_at = IsoFormat(0)

\* C17: a call that names a namespace or an entry that does not exist returns
\* at once, False from increment_entry_hit and (0, 0) from vote_entry, raises
\* nothing and leaves every collection as it was.
C17_MissingTargetIsNoOp ==
    [][\A m \in EntryCalls :
         (mpc[m] = "idle" /\ mpc'[m] # "idle") =>
            LET args == margs'[m] IN
            (\/ GetProjectNamespace(args.project_id) = Absent
             \/ MetaIn(collections, args.project_id, args.entry_id) = NoMeta)
               => /\ mpc'[m] = "done"
                  /\ mresult'[m] = (IF args.op = "hit" THEN Returned(FALSE)
                                    ELSE Returned(<<0, 0>>))
                  /\ collections' = collections
      ]_vars

\* a hit on a project without a namespace returned False and a vote on an
\* entry the namespace lacks returned (0, 0)
C17_Witness ==
    \E m, d \in EntryCalls :
        /\ mpc[m] = "done" /\ mpc[d] = "done"
        /\ margs[m].op = "hit" /\ margs[m].project_id = "beta"
        /\ mresult[m] = Returned(FALSE)
        /\ margs[d].op = "vote" /\ margs[d].project_id = "alpha" /\ margs[d].entry_id = 3
        /\ mresult[d] = Returned(<<0, 0>>)

\* C18: a vote_entry call returns the (likes, dislikes) pair that is stored
\* when it returns; run without another call in between, a "like" leaves the
\* stored likes one higher and the dislikes as they were, a "dislike" the
\* dislikes one higher and the likes as they were.
C18_VoteCountsOnce ==
    [][\A m \in EntryCalls :
         (mpc[m] = "updating" /\ mpc'[m] = "done" /\ margs[m].op = "vote") =>
            LET before == MetaIn(collections, margs[m].project_id, margs[m].entry_id)
                after == MetaIn(collections', margs[m].project_id, margs[m].entry_id) IN
            /\ mresult'[m] = Returned(<<after.likes, after.dislikes>>)
            /\ (UpdatesAlone(m, "vote") /\ margs[m].vote_type = "like") =>
                  /\ after.likes = before.likes + 1
                  /\ after.dislikes = before.dislikes
            /\ (UpdatesAlone(m, "vote") /\ margs[m].vote_type = "dislike") =>
                  /\ after.dislikes = before.dislikes + 1
                  /\ after.likes = before.likes
      ]_vars

\* a like and then a dislike on an entry that had five likes returned (6, 0)
\* and (6, 1), and (6, 1) is stored
C18_Witness ==
    /\ mpc[1] = "done" /\ mpc[2] = "done"
    /\ margs[1].op = "vote" /\ margs[1].vote_type = "like"
    /\ margs[2].op = "vote" /\ margs[2].vote_type = "dislike"
    /\ ~mshared[1] /\ ~mshared[2]
    /\ mresult[1] = Returned(<<6, 0>>)
    /\ mresult[2] = Returned(<<6, 1>>)
    /\ MetaIn(collections, "alpha", 1).likes = 6
    /\ MetaIn(collections, "alpha", 1).dislikes = 1

\* C19: a vote_entry call with a vote_type other than "like" and "dislike",
\* run without another call in between, returns the stored (likes, dislikes),
\* raises nothing and leaves every collection as it was.
C19_UnknownVoteIsNoOp ==
    [][\A m \in EntryCalls :
         (UpdatesAlone(m, "vote") /\ margs[m].vote_type \notin {"like", "dislike"}) =>
            LET before == MetaIn(collections, margs[m].project_id, margs[m].entry_id) IN
            /\ mresult'[m] = Returned(<<before.likes, before.dislikes>>)
            /\ collections' = collections
      ]_vars

\* a vote of an unknown kind on an entry with five dislikes returned (0, 5)
C19_Witness ==
    \E m \in EntryCalls :
        /\ mpc[m] = "done"
        /\ margs[m].op = "vote" /\ margs[m].vote_type = "meh"
        /\ ~mshared[m]
        /\ mresult[m] = Returned(<<0, 5>>)
        /\ MetaIn(collections, "alpha", 1).dislikes = 5

\* C20: no step lowers the stored likes or dislikes of an entry, whatever the
\* interleaving of the gets and updates of concurrent calls.
C20_VotesOnlyIncrease ==
    [][\A p \in Projects : \A id \in 1..next_uuid :
         LET before == MetaIn(collections, p, id)
             after == MetaIn(collections', p, id) IN
         (before # NoMeta /\ after # NoMeta) =>
            /\ after.likes >= before.likes
            /\ after.dislikes >= before.dislikes
      ]_vars


\* C21: no step lowers the stored times_accessed of an entry, whatever the
\* interleaving of the gets and updates of concurrent calls, and the update of
\* a vote_entry call leaves the entry's times_accessed and last_accessed_at as
\* they were.
C21_HitsNeverDecrease ==
    [][/\ \A p \in Projects : \A id \in 1..next_uuid :
            LET before == MetaIn(collections, p, id)
                after == MetaIn(collections', p, id) IN
            (before # NoMeta /\ after # NoMeta) =>
               after.times_accessed >= before.times_accessed
       /\ \A m \in EntryCalls :
            (mpc[m] = "updating" /\ mpc'[m] = "done" /\ margs[m].op = "vote") =>
               LET before == MetaIn(collections, margs[m].project_id, margs[m].entry_id)
                   after == MetaIn(collections', margs[m].project_id, margs[m].entry_id) IN
               /\ after.times_accessed = before.times_accessed
               /\ after.last_accessed_at = before.last_accessed_at
      ]_vars

\* the fields of a stored point that nothing rewrites after cache_prompt
WriteOnce(point) ==
    [entry_id |-> point.id,
     key_embedding |-> point.embedding,
     prompt |-> point.document,
     project_id |-> point.metadata.project_id,
     user_id |-> point.metadata.user_id,
     answer |-> point.metadata.answer,
     compressed_prompt |-> point.metadata.compressed_prompt,
     compression_ratio |-> point.metadata.compression_ratio,
     original_tokens |-> point.metadata.original_tokens,
     compressed_tokens |-> point.metadata.compressed_tokens,
     created_at |-> point.metadata.created_at]

\* the two entries of project "alpha" as cache_prompt stored them at time 0
CreatedPoints == <<StoredPoint(1, "alpha", "q1", <<0, 0>>), StoredPoint(2, "alpha", "q2", <<0, 0>>)>>

\* C23: whatever increment_entry_hit and vote_entry calls have run, in any
\* interleaving, the namespace holds the entries it held, in the same order, and
\* each has the entry_id, project_id, user_id, prompt, answer, key_embedding,
\* compression fields and created_at that cache_prompt stored.
C23_WriteOnceFieldsKept ==
    LET points == GetProjectNamespace("alpha").points IN
    /\ Len(points) = Len(CreatedPoints)
    /\ \A i \in 1..Len(points) : WriteOnce(points[i]) = WriteOnce(CreatedPoints[i])
    /\ GetProjectNamespace("beta") = Absent

\* a hit and a like on the first entry have both been written: it has two
\* accesses, a later last access and one more like than it was stored with
C23_Witness ==
    /\ mpc[1] = "done" /\ mpc[2] = "done"
    /\ {margs[1].op, margs[2].op} = {"hit", "vote"}
    /\ MetaIn(collections, "alpha", 1).times_accessed = 2
    /\ MetaIn(collections, "alpha", 1).last_accessed_at = IsoFormat(1)
    /\ MetaIn(collections, "alpha", 1).likes \in {1, 6}
    /\ MetaIn(collections, "alpha", 1).created_at = IsoFormat(0)

\* C30: whatever list the chain was constructed from, a MockLLMProvider
\* anywhere in it included, the last provider of self.providers is a
\* MockLLMProvider and every other provider supplied stands before it.
C30_ChainEndsWithMock ==
    /\ Len(providers) >= 1
    /\ IsMock(providers[Len(providers)])
    /\ \A i \in 1..Len(given) :
          ~IsMock(given[i]) =>
             \E j \in 1..(Len(providers) - 1) : providers[j] = given[i]

\* C22: in every state reached by cache_prompt, increment_entry_hit,
\* vote_entry, delete_entries, clear_project_cache and create_project_namespace
\* calls, with the clock never going back, every stored entry has
\* times_accessed >= 1, likes >= 0, dislikes >= 0 and created_at no later than
\* last_accessed_at, and no two entries of a namespace have the same entry_id.
C22_EntryInvariants ==
    \A p \in Projects :
        LET points == GetProjectNamespace(p).points IN
        /\ \A i \in 1..Len(points) :
              /\ points[i].metadata.times_accessed >= 1
              /\ points[i].metadata.likes >= 0
              /\ points[i].metadata.dislikes >= 0
              /\ FromIsoFormat(points[i].metadata.created_at)
                    <= FromIsoFormat(points[i].metadata.last_accessed_at)
        /\ \A i, j \in 1..Len(points) : i # j => points[i].id # points[j].id

\* two prompts were cached, at times 0 and 1, the first entry was voted up
\* and then deleted: the namespace holds the second entry alone
C22_Witness ==
    LET points == GetProjectNamespace("alpha").points IN
    /\ rresult[1] = Returned(1) /\ rresult[2] = Returned(2)
    /\ mpc[1] = "done" /\ margs[1].op = "vote"
    /\ mresult[1] = Returned(<<1, 0>>)
    /\ opResult = Called("delete", [project_id |-> "alpha", entry_ids |-> <<1>>], Returned(1))
    /\ Len(points) = 1
    /\ points[1].id = 2
    /\ points[1].metadata.created_at = IsoFormat(1)
    /\ clock = 2

\* C24: a create_project_namespace call for a project whose namespace exists
\* raises ValueError and leaves every collection, the entries of the namespace
\* included, and the set of namespaces as they were; for a project without a
\* namespace it returns None and the namespace exists, empty.
C24_SecondCreateRaises ==
    [][\A p \in Projects :
         (opResult'.op = "create" /\ opResult'.args.project_id = p) =>
            IF GetProjectNamespace(p) # Absent
            THEN /\ opResult'.result = AlreadyExists(p)
                 /\ collections' = collections
                 /\ aux_collections' = aux_collections
                 /\ ProjectNamespaces' = ProjectNamespaces
            ELSE /\ opResult'.result = Returned("None")
                 /\ GetProjectNamespace(p)' = Collection(<<>>)
      ]_vars

\* project "beta", which had no namespace, got one from a first call and the
\* next call raised; the entries of "alpha" are still stored
C24_Witness ==
    /\ opResult.op = "create"
    /\ opResult.args.project_id = "beta"
    /\ opResult.result = AlreadyExists("beta")
    /\ GetProjectNamespace("beta") = Collection(<<>>)
    /\ Len(GetProjectNamespace("alpha").points) = 2

\* the project ids whose namespace exists
ExistingProjects == {p \in Projects : GetProjectNamespace(p) # Absent}

\* C25: the listing project_namespaces returns holds the project_id of every
\* project whose namespace exists and nothing else, whatever users were
\* registered and prompts recorded; it is empty when no namespace exists.
C25_ListingIsExistingProjects ==
    opResult.op = "namespaces" =>
       /\ opResult.result = Returned({<<p>> : p \in ExistingProjects})
       /\ ExistingProjects = {} => opResult.result.value = {}

\* the ids of the points a collection holds, none for a missing collection
StoredIds(colls, project_id) ==
    {colls[CollectionName(project_id)].points[i].id :
        i \in 1..Len(colls[CollectionName(project_id)].points)}

\* C26: delete_entries returns the number of entries that were stored before
\* the call and are not stored after it, whatever ids the list holds; it returns
\* 0 and changes nothing when the namespace is missing, and leaves every entry
\* whose id is not listed as it was.
C26_DeleteReturnsCountRemoved ==
    [][opResult'.op = "delete" =>
          LET p == opResult'.args.project_id
              ids == Elements(opResult'.args.entry_ids)
              before == GetProjectNamespace(p).points
              after == collections'[CollectionName(p)].points IN
          /\ opResult'.result =
                Returned(Cardinality(StoredIds(collections, p) \ StoredIds(collections', p)))
          /\ GetProjectNamespace(p) = Absent =>
                /\ opResult'.result = Returned(0)
                /\ collections' = collections
          /\ \A i \in 1..Len(before) :
                before[i].id \notin ids => \E k \in 1..Len(after) : after[k] = before[i]
      ]_vars

\* C27: clear_project_cache returns the number of entries the namespace held,
\* 0 for a missing namespace; afterwards list_entries and lookup_prompt return
\* empty lists for the project, whatever their other arguments, and
\* get_project_stats reports no entries and no hits; the other namespaces are
\* as they were.
C27_ClearReturnsCountAndEmpties ==
    [][\A p \in Projects :
         (opResult'.op = "clear" /\ opResult'.args.project_id = p) =>
            /\ opResult'.result = Returned(Len(GetProjectNamespace(p).points))
            /\ GetProjectNamespace(p) = Absent => opResult'.result = Returned(0)
            /\ (\A limit \in 1..MaxLimit : \A offset \in Offsets :
                   ListedEntries(p, limit, offset, <<>>) = <<>>)'
            /\ (\A args \in LookupArgs :
                   args.project_id = p => LookupResult(args, <<>>) = <<>>)'
            /\ (ProjectStats(p).total_entries = 0 /\ ProjectStats(p).total_hits = 0)'
            /\ \A other \in Projects \ {p} :
                  GetProjectNamespace(other)' = GetProjectNamespace(other)
      ]_vars

\* a namespace of two entries was cleared and the call returned 2; a later
\* state holds no namespace for the project
C27_Witness ==
    /\ opResult.op = "clear"
    /\ opResult.args.project_id = "alpha"
    /\ opResult.result = Returned(2)
    /\ GetProjectNamespace("alpha") = Absent

\* the accesses of a list of points, added up from the last point backwards
RECURSIVE SumOfAccesses(_)
SumOfAccesses(points) ==
    IF points = <<>> THEN 0
    ELSE SumOfAccesses(SubSeq(points, 1, Len(points) - 1))
            + points[Len(points)].metadata.times_accessed

\* C28: get_project_stats reports the number of entries of the namespace as
\* total_entries and the sum of their times_accessed as total_hits, whatever
\* entries were stored, hit, deleted or cleared before; both are 0 for an empty
\* and for a missing namespace.
C28_StatsCountEntriesAndHits ==
    opResult.op = "stats" =>
       LET collection == GetProjectNamespace(opResult.args.project_id)
           stats == opResult.result.value IN
       /\ stats.total_entries = Len(collection.points)
       /\ stats.total_hits = SumOfAccesses(collection.points)
       /\ (collection = Absent \/ collection.points = <<>>) =>
             /\ stats.total_entries = 0
             /\ stats.total_hits = 0

\* after the first of two entries was deleted the statistics report the one
\* entry left and its three accesses
C28_Witness ==
    /\ opResult.op = "stats"
    /\ opResult.args.project_id = "alpha"
    /\ opResult.result.value.total_entries = 1
    /\ opResult.result.value.total_hits = 3
    /\ Len(GetProjectNamespace("alpha").points) = 1
    /\ GetProjectNamespace("alpha").points[1].id = 2

\* C29: list_entries returns at most `limit` entries, all of them entries of the
\* project's namespace and no entry twice, each last accessed no later than the
\* one before it; it returns an empty list for a missing namespace and changes
\* no collection.
C29_ListIsSortedPage ==
    [][opResult'.op = "list" =>
          LET args == opResult'.args
              entries == opResult'.result.value
              collection == GetProjectNamespace(args.project_id) IN
          /\ collections' = collections
          /\ aux_collections' = aux_collections
          /\ Len(entries) <= args.limit
          /\ \A i \in 1..(Len(entries) - 1) :
                entries[i].last_accessed_at >= entries[i + 1].last_accessed_at
          /\ \A i \in 1..Len(entries) :
                \E k \in 1..Len(collection.points) :
                   entries[i] = ListedEntry(collection.points[k], args.project_id)
          /\ \A i, j \in 1..Len(entries) : i # j => entries[i].entry_id # entries[j].entry_id
          /\ collection = Absent => entries = <<>>
      ]_vars

\* a page of two entries: the entry stored second, accessed last at time 2,
\* before the entry stored first, accessed last at time 1
C29_Witness ==
    /\ opResult.op = "list"
    /\ opResult.args = [project_id |-> "alpha", limit |-> 2, offset |-> 0]
    /\ Len(opResult.result.value) = 2
    /\ opResult.result.value[1].entry_id = 2
    /\ opResult.result.value[1].last_accessed_at = 2
    /\ opResult.result.value[2].entry_id = 1
    /\ opResult.result.value[2].last_accessed_at = 1

\* C31: a call that awaits a provider ends: when every awaited provider
\* returns or raises, each call that is not cancelled comes to return a text
\* to its caller; at every moment a call has invoked at most len(providers)
\* providers, and no call is ever over with an exception.
C31_EveryCallSucceeds ==
    /\ [](\A c \in ChainCalls :
             /\ Len(cinvoked[c]) <= Len(providers)
             /\ cpc[c] # "raised"
             /\ cpc[c] = "returned" => cresult[c] # NoText /\ creported[c] \in ProviderNames)
    /\ \A c \in ChainCalls :
          (cpc[c] = "awaiting") ~> (cpc[c] = "returned" \/ cpc[c] = "cancelled")

\* both providers given raised in the first call, which returned the mock's
\* text after three invocations, while the second call still awaits the first
\* provider
C31_Witness ==
    /\ given = <<"gemini", "openrouter">>
    /\ cpc[1] = "returned"
    /\ cinvoked[1] = <<1, 2, 3>>
    /\ craised[1] = <<1, 2>>
    /\ cresult[1].by = "mock"
    /\ cpc[2] = "awaiting"
    /\ cidx[2] = 1

\* C32: whatever calls are in flight on the provider, no call tries a
\* credential twice.
C32_EachKeyAtMostOnceShared ==
    \A c \in GeminiCalls :
        \A i, j \in 1..Len(gkeys[c]) : i # j => gkeys[c][i] # gkeys[c][j]

\* the credentials call c has tried
KeysTried(c) == {gkeys[c][i] : i \in 1..Len(gkeys[c])}

NearestSet(ids, points, prompt, n) ==
    /\ ids \subseteq {points[i].id : i \in 1..Len(points)}
    /\ Cardinality(ids) = Min(n, Len(points))
    /\ \A i, j \in 1..Len(points) :
          (points[i].id \in ids /\ points[j].id \notin ids) =>
             SimilarityTo(prompt, points[i]) >= SimilarityTo(prompt, points[j])

\* C34: the list a lookup returned holds the top min(limit, m) entries by
\* hybrid score of a pool of m entries: the 3 x limit nearest neighbours of
\* the prompt that reach the threshold.  It has at most limit entries, no
\* entry twice, every entry has fewer than 3 x limit stored points strictly
\* nearer to the prompt than itself, and no entry of the pool that was left
\* out has a higher hybrid score than a returned one.
C34_TopOfNearestPool ==
    (lpc = "done") =>
        LET entries == lresult.value
            points == LookupPoints
            returned == {entries[i].entry_id : i \in 1..Len(entries)} IN
        /\ Len(entries) <= largs.limit
        /\ Cardinality(returned) = Len(entries)
        /\ \A id \in returned :
              Cardinality({j \in 1..Len(points) :
                              SimilarityTo(largs.prompt, points[j])
                                 > SimilarityTo(largs.prompt, PointById(points, id))})
                 < 3 * largs.limit
        /\ \E nearest \in SUBSET {points[i].id : i \in 1..Len(points)} :
              LET pool == {id \in nearest :
                              SimilarityTo(largs.prompt, PointById(points, id))
                                 >= largs.threshold} IN
              /\ NearestSet(nearest, points, largs.prompt, 3 * largs.limit)
              /\ returned \subseteq pool
              /\ Len(entries) = Min(largs.limit, Cardinality(pool))
              /\ \A out \in pool \ returned : \A id \in returned :
                    HybridTo(largs.prompt, PointById(points, out))
                       <= HybridTo(largs.prompt, PointById(points, id))

\* a lookup with limit 1 on a namespace of four entries: the three nearest
\* are the pool, and the entry returned has a lower hybrid score than the
\* fourth, a liked near duplicate outside the pool
C34_Witness ==
    /\ lpc = "done"
    /\ largs.limit = 1
    /\ Len(LookupPoints) = 4
    /\ Len(lresult.value) = 1
    /\ lresult.value[1].score = 100
    /\ \E i \in 1..4 :
          /\ SimilarityTo(largs.prompt, LookupPoints[i]) = 96
          /\ HybridTo(largs.prompt, LookupPoints[i])
                > HybridTo(largs.prompt, PointById(LookupPoints, lresult.value[1].entry_id))

\* the hybrid score of a candidate of the ranking
HybridOf(cand) == cand.score + Clamp(cand.likes - cand.dislikes, -10, 20)

\* the position of the candidate of that id in a list of entries, 0 when it
\* is not there
RankOf(entries, id) ==
    IF \E k \in 1..Len(entries) : entries[k].entry_id = id
    THEN CHOOSE k \in 1..Len(entries) : entries[k].entry_id = id
    ELSE 0

\* C35: the ranking is stable: of two candidates with the same hybrid score
\* the one the query delivered first comes first in the ranked list and in
\* the result; at the cut-off the one delivered later is in the result only
\* when the one delivered first is.
C35_RerankStable ==
    (kpc = "done") =>
        LET ranked == [k \in 1..Len(ranked_candidates) |-> ranked_candidates[k].entry] IN
        \A i, j \in 1..Len(candidates) :
            (i < j /\ HybridOf(candidates[i]) = HybridOf(candidates[j])) =>
                /\ RankOf(ranked, candidates[i].entry_id)
                      < RankOf(ranked, candidates[j].entry_id)
                /\ RankOf(final_entries, candidates[j].entry_id) # 0 =>
                      /\ RankOf(final_entries, candidates[i].entry_id) # 0
                      /\ RankOf(final_entries, candidates[i].entry_id)
                            < RankOf(final_entries, candidates[j].entry_id)

\* three candidates of hybrid score 0.90, of similarity 1.0, 1.0 and 0.7, and
\* a limit of 2: the result is the first two in the order delivered, the tie
\* at the cut-off decided for the one delivered before
C35_Witness ==
    /\ kpc = "done"
    /\ klimit = 2
    /\ Len(candidates) = 3
    /\ candidates[1].score = 100 /\ candidates[2].score = 100 /\ candidates[3].score = 70
    /\ \A i \in 1..3 : HybridOf(candidates[i]) = 90
    /\ candidates[1].dislikes # candidates[2].dislikes
    /\ final_entries = <<candidates[1], candidates[2]>>

\* C40: a candidate whose similarity is more than 0.3 above another's is
\* ranked before it whatever the votes of the two: it precedes it in the
\* ranked list, and the other is in the result only behind it.
C40_VotesReorderWithinGap ==
    (kpc = "done") =>
        LET ranked == [k \in 1..Len(ranked_candidates) |-> ranked_candidates[k].entry] IN
        \A i, j \in 1..Len(candidates) :
            (candidates[i].score - candidates[j].score > 30) =>
                /\ RankOf(ranked, candidates[i].entry_id)
                      < RankOf(ranked, candidates[j].entry_id)
                /\ RankOf(final_entries, candidates[j].entry_id) # 0 =>
                      /\ RankOf(final_entries, candidates[i].entry_id) # 0
                      /\ RankOf(final_entries, candidates[i].entry_id)
                            < RankOf(final_entries, candidates[j].entry_id)

\* a candidate of similarity 1.0 with 1000 net dislikes is ranked, at 0.90,
\* before one of similarity 0.69 with 1000 net likes, at 0.89
C40_Witness ==
    /\ kpc = "done"
    /\ klimit = 1
    /\ \E i, j \in 1..Len(candidates) :
          /\ candidates[i].score = 100 /\ candidates[i].dislikes = 1000
          /\ candidates[j].score = 69 /\ candidates[j].likes = 1000
          /\ final_entries = <<candidates[i]>>

(***************************************************************************)
(* The HTTP router over the cache engine. A handler runs without           *)
(* interruption up to its one await, the embedding call inside             *)
(* cache_prompt or lookup_prompt, and from there to its response; the      *)
(* handlers without an embedding call run in one step.                     *)
(***************************************************************************)
RouterCalls == {1, 2}

\* the bodies of the requests sent: inserts and lookups of one prompt for
\* either project, hits and likes of the first entry stored
RouterInsertArgs == {a \in CacheArgs : a.prompt = "q1"}
RouterLookupArgs ==
    {a \in LookupArgs : a.prompt = "q1" /\ a.limit = 1 /\ a.threshold = 0}
RouterEntryArgs ==
    {a \in EntryArgs : a.project_id = "alpha" /\ a.entry_id = 1
                          /\ a.vote_type \in {"none", "like"}}

\* mutant: the router lets the ValueError of the creation through
LazyCreateUnswallowed(project_id) ==
    [raises |-> CreateNamespace(project_id).result = AlreadyExists(project_id),
     error |-> CreateNamespace(project_id).result,
     collections |-> CreateNamespace(project_id).collections]

\* if body.project_id not in cache_handler.project_namespaces:
\*     try: cache_handler.create_project_namespace(body.project_id)
\*     except ValueError: pass
\* the listing holds collection names, which a project id is not unless a
\* collection is named as the project is
LazyCreate(project_id) ==
    IF <<project_id>> \in ProjectNamespaces
    THEN [raises |-> FALSE, error |-> NoResult, collections |-> collections]
    ELSE [raises |-> FALSE, error |-> NoResult,
          collections |-> CreateNamespace(project_id).collections]

\* raise HTTPException(status_code=500, detail=str(e))
HttpError(e) == [status |-> 500, detail |-> e]

\* the response of cache_insert to what cache_prompt returned or raised
InsertResponse(args, result) ==
    IF result.error # "ok" THEN HttpError(result)
    ELSE [status |-> 200,
          stored_entries |-> IF result.value # 0
                             THEN <<[key |-> args.prompt, value |-> args.answer]>>
                             ELSE <<>>]

\* POST /cache/insert up to the await inside cache_prompt: the namespace is
\* created when the listing lacks the project, then cache_prompt starts
RouterCacheInsert(r) ==
    /\ UNCHANGED <<chainVars, geminiVars, adminVars, rankVars, lookupVars, entryVars>>
    /\ rpc[r] = "idle"
    /\ \A q \in 1..(r - 1) : rpc[q] # "idle"
    /\ \E args \in RouterInsertArgs :
          LET lazy == LazyCreate(args.project_id) IN
          /\ rargs' = [rargs EXCEPT ![r] = args]
          /\ collections' = lazy.collections
          /\ IF lazy.raises
             THEN /\ rpc' = [rpc EXCEPT ![r] = "failed"]
                  /\ rresult' = [rresult EXCEPT ![r] = lazy.error]
                  /\ UNCHANGED rnow
             ELSE /\ rpc' = [rpc EXCEPT ![r] = "embedding"]
                  /\ rnow' = [rnow EXCEPT ![r] = clock]
                  /\ UNCHANGED rresult
    /\ UNCHANGED <<clock, next_uuid>>

\* POST /cache/lookup up to the await inside lookup_prompt
RouterCacheLookup ==
    /\ UNCHANGED <<chainVars, geminiVars, adminVars, rankVars, entryVars>>
    /\ lpc = "idle"
    /\ \E args \in RouterLookupArgs :
          LET lazy == LazyCreate(args.project_id) IN
          /\ largs' = args
          /\ collections' = lazy.collections
          /\ IF lazy.raises
             THEN /\ lpc' = "failed"
                  /\ lresult' = lazy.error
                  /\ UNCHANGED lseen
             ELSE /\ lpc' = "embedding"
                  /\ lseen' = next_uuid
                  /\ UNCHANGED lresult
    /\ UNCHANGED <<clock, next_uuid, rpc, rargs, rnow, rresult>>

\* increment_entry_hit or vote_entry within one handler: the get, the update
\* and the return, with no await between them
RouterEntryCall(m, args, meta, result) ==
    /\ mpc[m] = "idle"
    /\ margs' = [margs EXCEPT ![m] = args]
    /\ mpc' = [mpc EXCEPT ![m] = "done"]
    /\ LET collection == GetProjectNamespace(args.project_id)
           res == GetMetadatas(collection, args.entry_id) IN
       IF collection = Absent \/ res.ids = <<>>
       THEN /\ mresult' = [mresult EXCEPT ![m] = NotFound(args.op)]
            /\ UNCHANGED collections
       ELSE /\ mresult' = [mresult EXCEPT ![m] = result]
            /\ collections' = UpdateMetadatas(args.project_id, args.entry_id, meta)
    /\ UNCHANGED <<mmeta, mnow, mshared>>
    /\ UNCHANGED <<clock, next_uuid, rpc, rargs, rnow, rresult>>

\* POST /cache/hit/{entry_id}
RouterRegisterCacheHit(m) ==
    /\ UNCHANGED <<chainVars, geminiVars, adminVars, rankVars, lookupVars>>
    /\ \E args \in {a \in RouterEntryArgs : a.op = "hit"} :
          RouterEntryCall(m, args, HitMeta(StoredMeta(args), clock), Returned(TRUE))

\* POST /cache/vote
RouterVoteEntry(m) ==
    /\ UNCHANGED <<chainVars, geminiVars, adminVars, rankVars, lookupVars>>
    /\ \E args \in {a \in RouterEntryArgs : a.op = "vote"} :
          LET meta == VoteMeta(StoredMeta(args), args.vote_type) IN
          RouterEntryCall(m, args, meta,
                          IF meta = NoMeta THEN NotFound("vote")
                          ELSE Returned(<<meta.likes, meta.dislikes>>))

\* the requests of the router at any times, in any interleaving
RouterNext ==
    \/ \E r \in RouterCalls : RouterCacheInsert(r)
    \/ \E r \in RouterCalls : CachePromptEmbedFails(r)
    \/ \E r \in RouterCalls : CachePromptEmbedded(r)
    \/ RouterCacheLookup
    \/ LookupEmbedFails
    \/ LookupEmbedded
    \/ \E p \in Projects : CallClearProjectCache(p)
    \/ DeleteEntries("alpha", <<1>>)
    \/ RouterRegisterCacheHit(1)
    \/ RouterVoteEntry(1)

\* C36: for any interleaving of router requests, a cache_insert whose
\* embedding call succeeds is not answered with "no namespace found": it ends
\* with status 200 and its entry stored in the project's namespace.
C36_InsertWithEmbeddingIsStored ==
    [][\A r \in RouterCalls :
         (rpc[r] = "embedding" /\ rpc'[r] # "embedding" /\ rresult'[r] # EmbeddingError) =>
            /\ rresult'[r] # NamespaceNotFound(rargs[r].project_id)
            /\ rpc'[r] = "done"
            /\ InsertResponse(rargs[r], rresult'[r]).status = 200
            /\ MetaIn(collections', rargs[r].project_id, rresult'[r].value) # NoMeta
      ]_vars

\* a step in which a router handler checks the listing for project p and
\* creates the namespace it misses
LazyCreateStep(p) ==
    \/ \E r \in RouterCalls : rpc[r] = "idle" /\ rpc'[r] # "idle" /\ rargs'[r].project_id = p
    \/ lpc = "idle" /\ lpc' # "idle" /\ largs'.project_id = p

\* C37: whatever the interleaving of the cache_insert and cache_lookup
\* handlers, the lazy creation of a project's namespace fails no caller, leaves
\* the project with its one namespace, and loses no entry: a namespace that
\* existed keeps its points, every other namespace is untouched.
C37_LazyCreationIsRaceSafe ==
    [][\A p \in Projects :
         LazyCreateStep(p) =>
            /\ \A r \in RouterCalls : rpc'[r] = "failed" => rpc[r] = "failed"
            /\ lpc' = "failed" => lpc = "failed"
            /\ GetProjectNamespace(p)' # Absent
            /\ GetProjectNamespace(p) # Absent => GetProjectNamespace(p)' = GetProjectNamespace(p)
            /\ GetProjectNamespace(p) = Absent => GetProjectNamespace(p)' = Collection(<<>>)
            /\ \A q \in Projects \ {p} : GetProjectNamespace(q)' = GetProjectNamespace(q)
      ]_vars

\* two inserts and a lookup for "alpha", none cleared or deleted: the first
\* insert created the namespace and stored its entry, the creation of the
\* two callers after it met the namespace
C37_Witness ==
    /\ opResult = NoOp
    /\ rpc[1] = "done" /\ rargs[1].project_id = "alpha"
    /\ rpc[2] = "done" /\ rargs[2].project_id = "alpha"
    /\ lpc = "embedding" /\ largs.project_id = "alpha"
    /\ Len(GetProjectNamespace("alpha").points) = 2
    /\ GetProjectNamespace("beta") = Absent

\* C38: paging with list_entries follows recency across pages: with the
\* namespace unchanged between the two calls, no entry of page
\* (limit, offset + limit) was accessed later than an entry of page
\* (limit, offset).
C38_PagesFollowRecency ==
    \A p \in Projects : \A limit \in 1..MaxLimit : \A offset \in 0..1 :
       \A order \in GetOrders(GetProjectNamespace(p).points) :
          LET page == ListedEntries(p, limit, offset, order)
              following == ListedEntries(p, limit, offset + limit, order) IN
          \A i \in 1..Len(page) : \A j \in 1..Len(following) :
             following[j].last_accessed_at <= page[i].last_accessed_at

(***************************************************************************)
(* Two projects side by side.                                              *)
(***************************************************************************)
\* the entry_ids lists sent to delete_entries: the entry of "alpha", the
\* entry of "beta", both
IsolationIdLists == {<<1>>, <<3>>, <<1, 3>>}

\* a handler whose projects "alpha" and "beta" each have no namespace, an
\* empty one, or one holding an entry for the same prompt: entry 1 under
\* "alpha", entry 3 under "beta"
IsolationStoreInit ==
    /\ \E a \in {Absent, Collection(<<>>),
                 Collection(<<StoredPoint(1, "alpha", "q1", <<0, 0>>)>>)} :
       \E b \in {Absent, Collection(<<>>),
                 Collection(<<StoredPoint(3, "beta", "q1", <<0, 0>>)>>)} :
          collections = [cn \in CollectionNames |->
                           IF cn = CollectionName("alpha") THEN a ELSE b]
    /\ next_uuid = 3
    /\ clock = 0
    /\ rpc = [r \in CacheCalls |-> "idle"]
    /\ rargs = [r \in CacheCalls |-> NoArgs]
    /\ rnow = [r \in CacheCalls |-> 0]
    /\ rresult = [r \in CacheCalls |-> NoResult]

\* the operations of the handler on either project, in any interleaving:
\* one cache_prompt and one lookup_prompt of the stored prompt, one hit or
\* like of either entry, and the management calls
IsolationNext ==
    \/ CachePrompt(1) /\ rargs'[1].prompt = "q1"
    \/ CachePromptEmbedFails(1)
    \/ CachePromptEmbedded(1)
    \/ LookupPrompt /\ largs'.prompt = "q1" /\ largs'.limit = MaxLimit /\ largs'.threshold = 0
    \/ LookupEmbedFails
    \/ LookupEmbedded
    \/ IncrementEntryHit(1)
    \/ IncrementEntryHitUpdate(1)
    \/ VoteEntry(1) /\ margs'[1].vote_type = "like"
    \/ VoteEntryUpdate(1)
    \/ \E p \in Projects : CallCreateProjectNamespace(p)
    \/ \E p \in Projects : CallClearProjectCache(p)
    \/ \E p \in Projects : \E ids \in IsolationIdLists : DeleteEntries(p, ids)
    \/ \E p \in Projects : ListEntries(p, MaxLimit, 0)

\* the step is (a step of) an operation addressed to project p
AddressedTo(p) ==
    \/ \E r \in CacheCalls : rpc'[r] # rpc[r] /\ rargs'[r].project_id = p
    \/ lpc' # lpc /\ largs'.project_id = p
    \/ \E m \in EntryCalls : mpc'[m] # mpc[m] /\ margs'[m].project_id = p
    \/ /\ rpc' = rpc /\ lpc' = lpc /\ mpc' = mpc
       /\ opResult'.op \in {"create", "clear", "delete", "list"}
       /\ opResult'.args.project_id = p

\* the ids of the points a namespace holds
IdsUnder(colls, p) ==
    {colls[CollectionName(p)].points[i].id : i \in 1..Len(colls[CollectionName(p)].points)}

\* C39: namespaces are isolated. Every step of an operation addressed to a
\* project (cache_prompt, lookup_prompt, increment_entry_hit, vote_entry,
\* delete_entries, clear_project_cache, create_project_namespace,
\* list_entries) leaves the namespace of every other project as it was, and
\* the entries lookup_prompt and list_entries return for a project are
\* entries stored under that project, none of them stored under another.
C39_NamespacesIsolated ==
    [][\A p \in Projects :
         AddressedTo(p) =>
            /\ \A q \in Projects \ {p} :
                  collections'[CollectionName(q)] = collections[CollectionName(q)]
            /\ (lpc' = "done" /\ lpc # "done") =>
                  \A i \in 1..Len(lresult'.value) :
                     /\ lresult'.value[i].project_id = p
                     /\ lresult'.value[i].entry_id \in IdsUnder(collections, p)
                     /\ \A q \in Projects \ {p} :
                           lresult'.value[i].entry_id \notin IdsUnder(collections, q)
            /\ (rpc' = rpc /\ lpc' = lpc /\ mpc' = mpc /\ opResult'.op = "list") =>
                  \A i \in 1..Len(opResult'.result.value) :
                     /\ opResult'.result.value[i].project_id = p
                     /\ opResult'.result.value[i].entry_id \in IdsUnder(collections, p)
                     /\ \A q \in Projects \ {p} :
                           opResult'.result.value[i].entry_id \notin IdsUnder(collections, q)
      ]_vars

\* both projects hold an entry for the same prompt; a lookup for "alpha"
\* returned two entries, the one stored first and the one a cache_prompt for
\* "alpha" added, while the entry of "beta" is still stored as it was
C39_Witness ==
    /\ lpc = "done" /\ largs.project_id = "alpha"
    /\ Len(lresult.value) = 2
    /\ rpc[1] = "done" /\ rargs[1].project_id = "alpha"
    /\ GetProjectNamespace("beta") = Collection(<<StoredPoint(3, "beta", "q1", <<0, 0>>)>>)
    /\ mpc[1] = "done" /\ margs[1].project_id = "alpha" /\ margs[1].entry_id = 3
    /\ opResult.op = "delete" /\ opResult.args = [project_id |-> "alpha", entry_ids |-> <<3>>]

Init == ChainInit /\ GeminiInit /\ CacheInit /\ RankInit /\ LookupQuiet /\ EntryQuiet /\ AdminQuiet

Next ==
    ChainNext \/ GeminiNext \/ CacheNext \/ RankNext \/ LookupNext \/ EntryNext \/ AdminNext

\* the chain alone, beside a Gemini provider and a cache nobody calls
InitChain == ChainInit /\ GeminiInitWith(<<>>) /\ CacheInit /\ RankQuiet /\ LookupQuiet /\ EntryQuiet /\ AdminQuiet

SpecChain == InitChain /\ [][ChainNext]_vars

\* the Gemini provider alone, beside a chain and a cache nobody calls
InitGemini == GeminiInit /\ ChainInitWith(<<>>) /\ CacheInit /\ RankQuiet /\ LookupQuiet /\ EntryQuiet /\ AdminQuiet

SpecGemini == InitGemini /\ [][GeminiNext]_vars

\* the cache engine alone, beside providers nobody calls
InitCache == CacheInit /\ RankQuiet /\ LookupQuiet /\ EntryQuiet /\ AdminQuiet /\ ChainInitWith(<<>>) /\ GeminiInitWith(<<>>)

SpecCache == InitCache /\ [][CacheNext]_vars

\* the ranking of a candidate list, on its own
InitRank ==
    RankInit /\ LookupQuiet /\ EntryQuiet /\ AdminQuiet /\ CacheInit /\ ChainInitWith(<<>>) /\ GeminiInitWith(<<>>)

SpecRank == InitRank /\ [][RankNext]_vars

\* lookups on a store that holds entries, beside providers nobody calls
InitLookup ==
    StoreInit /\ LookupQuiet /\ EntryQuiet /\ AdminQuiet /\ RankQuiet /\ ChainInitWith(<<>>) /\ GeminiInitWith(<<>>)

SpecLookup == InitLookup /\ [][LookupNext]_vars

\* hits and votes on a store that holds entries, beside providers nobody calls
InitEntry ==
    EntryStoreInit /\ EntryQuiet /\ LookupQuiet /\ AdminQuiet /\ RankQuiet /\ ChainInitWith(<<>>)
       /\ GeminiInitWith(<<>>)

SpecEntry == InitEntry /\ [][EntryNext]_vars

\* namespace management, deletion, statistics and listing on a store that
\* holds entries, beside providers nobody calls
InitAdmin ==
    AdminStoreInit /\ AdminQuiet /\ EntryQuiet /\ LookupQuiet /\ RankQuiet
       /\ ChainInitWith(<<>>) /\ GeminiInitWith(<<>>)

SpecAdmin == InitAdmin /\ [][AdminNext]_vars

\* the cache_prompt calls made in the life of a namespace
LifeCalls == {1, 2}

\* the life of the namespace of project "alpha" from an empty client on: the
\* namespace created and cleared, two prompts cached, an entry hit or voted
\* on, the first entry deleted
LifeNext ==
    \/ Tick
    \/ CreateProjectNamespace("alpha")
    \/ ClearProjectCache("alpha")
    \/ \E r \in LifeCalls : CachePrompt(r)
    \/ \E r \in LifeCalls : CachePromptEmbedFails(r)
    \/ \E r \in LifeCalls : CachePromptEmbedded(r)
    \/ IncrementEntryHit(1)
    \/ IncrementEntryHitUpdate(1)
    \/ VoteEntry(1)
    \/ VoteEntryUpdate(1)
    \/ DeleteEntries("alpha", <<1>>)

\* the cache engine from an empty client on, beside providers nobody calls
InitLife ==
    CacheInit /\ RankQuiet /\ LookupQuiet /\ EntryQuiet /\ AdminQuiet /\ ChainInitWith(<<>>)
       /\ GeminiInitWith(<<>>)

SpecLife == InitLife /\ [][LifeNext]_vars

\* the calls followed to their end
LiveCalls == {1, 2}

ChainLiveNext ==
    \E c \in LiveCalls :
        \/ ChainComplete(c)
        \/ ChainProviderReturns(c)
        \/ ChainProviderRaises(c)
        \/ ChainCancelled(c)

\* every provider invocation comes to an end: the provider a call awaits
\* returns or raises
ChainLiveFairness ==
    \A c \in LiveCalls : WF_vars(ChainProviderReturns(c) \/ ChainProviderRaises(c))

\* the chain with providers whose invocations end
SpecChainLive == InitChain /\ [][ChainLiveNext]_vars /\ ChainLiveFairness

\* the prompts and votes of the entries of a namespace larger than the
\* candidate pool
PooledKinds ==
    {<<"q1", <<0, 5>>>>, <<"q1", <<5, 0>>>>, <<"q3", <<5, 0>>>>, <<"q2", <<0, 5>>>>}

\* a handler whose project "alpha" holds up to MaxPooled entries, more than
\* the pool of a lookup with limit 1; "beta" has no namespace
PoolStoreInit ==
    /\ \E n \in 0..MaxPooled :
          \E kind \in [1..n -> PooledKinds] :
             /\ collections = [cn \in CollectionNames |->
                                 IF cn = CollectionName("alpha")
                                 THEN Collection([i \in 1..n |->
                                         StoredPoint(i, "alpha", kind[i][1], kind[i][2])])
                                 ELSE Absent]
             /\ next_uuid = n
    /\ clock = 0
    /\ rpc = [r \in CacheCalls |-> "idle"]
    /\ rargs = [r \in CacheCalls |-> NoArgs]
    /\ rnow = [r \in CacheCalls |-> 0]
    /\ rresult = [r \in CacheCalls |-> NoResult]

\* one lookup_prompt call
PoolNext ==
    \/ LookupPrompt
    \/ LookupEmbedFails
    \/ LookupEmbedded

\* a lookup on a namespace that holds more entries than the pool
InitPool ==
    PoolStoreInit /\ LookupQuiet /\ EntryQuiet /\ AdminQuiet /\ RankQuiet
       /\ ChainInitWith(<<>>) /\ GeminiInitWith(<<>>)

SpecPool == InitPool /\ [][PoolNext]_vars

\* the router over an empty client, beside providers nobody calls
InitRouter ==
    CacheInit /\ RankQuiet /\ LookupQuiet /\ EntryQuiet /\ AdminQuiet /\ ChainInitWith(<<>>)
       /\ GeminiInitWith(<<>>)

SpecRouter == InitRouter /\ [][RouterNext]_vars

\* the cache engine over two projects, beside providers nobody calls
InitIsolation ==
    IsolationStoreInit /\ RankQuiet /\ LookupQuiet /\ EntryQuiet /\ AdminQuiet
       /\ ChainInitWith(<<>>) /\ GeminiInitWith(<<>>)

SpecIsolation == InitIsolation /\ [][IsolationNext]_vars

Spec == Init /\ [][Next]_vars

=============================================================================
